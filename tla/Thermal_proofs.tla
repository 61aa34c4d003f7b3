--------------------------- MODULE Thermal_proofs ---------------------------
(***************************************************************************)
(* Proofs about temperatures and what is done about them: SysTemp, for any  *)
(* number of readers, on every board, and for every temperature an LM75 can *)
(* show; and FanPolicies, for all readings, faults and duty cycles others   *)
(* may write.                                                               *)
(***************************************************************************)
EXTENDS SysTemp, FanPolicies, FiniteSetTheorems, TLAPS

-----------------------------------------------------------------------------
(* SysTemp: the boards and the sum.                                         *)

\* A board has three or five sensors, and of the devices of a walk those are
\* counted whose address is one of them.
LEMMA BoardFacts ==
  ASSUME NEW b \in Boards
  PROVE  /\ NUM_THERMAL_SENSORS(b) \in {3, 5}
         /\ Of(b).missing \in Int
         /\ \A addr \in Lm75(b) : lm75_addr_mached(b, addr) => addr \in BoardSensors(b)
<1>1. INT_MAX \in Int
  BY SMT DEF INT_MAX
<1>2. CASE b \in {"as7312_54x", "as7326_56x", "as7712_32x"}
  <2>1. Of(b) = Sensors(3, 72..74, INT_MAX)
    BY <1>2, Zenon DEF Of, as7312_54x, as7326_56x, as7712_32x
  <2> QED
    BY <1>1, <2>1, SMT DEF Sensors, NUM_THERMAL_SENSORS, lm75_addr_mached, BoardSensors
<1>3. CASE b = "as7726_32x"
  <2>1. Of(b) = Sensors(5, 72..76, INT_MAX)
    BY <1>3, Zenon DEF Of, as7726_32x
  <2> QED
    BY <1>1, <2>1, SMT DEF Sensors, NUM_THERMAL_SENSORS, lm75_addr_mached, BoardSensors
<1>4. CASE b \in {"as7716_32x", "as7716_32xb"}
  <2>1. Of(b) = Sensors(3, AnyAddress, 0)
    BY <1>4, Zenon DEF Of, as7716_32x, as7716_32xb
  <2>2. Lm75(b) = BoardSensors(b)
    BY <2>1, SMT DEF Sensors, Lm75, BoardSensors, NUM_THERMAL_SENSORS
  <2> QED
    BY <2>1, <2>2, SMT DEF Sensors, NUM_THERMAL_SENSORS
<1> QED
  BY <1>2, <1>3, <1>4, BoardsAssumption, SMT

LEMMA PlusType ==
  ASSUME NEW a \in Int, NEW t \in Int
  PROVE  Plus(a, t) \in Int
BY SMT DEF Plus, INT_MAX, INT_MIN

\* The sum of four sensors takes a fifth without wrapping around.
LEMMA PlusSmall ==
  ASSUME NEW a \in Int, a <= 512000, a + 512000 >= 0, NEW t \in Temps
  PROVE  Plus(a, t) = a + t
BY TempsAssumption, SMT DEF Plus, INT_MAX, INT_MIN, Hottest

LEMMA FiniteSensors ==
  ASSUME NEW b \in Boards
  PROVE  /\ IsFiniteSet(BoardSensors(b))
         /\ Cardinality(BoardSensors(b)) = NUM_THERMAL_SENSORS(b)
<1> DEFINE last == 71 + NUM_THERMAL_SENSORS(b)
<1>1. NUM_THERMAL_SENSORS(b) \in Int /\ last \in Int /\ 72 \in Int /\ last >= 72
  BY BoardFacts
<1> HIDE DEF last
<1>2. IsFiniteSet(72..last) /\ Cardinality(72..last) = last - 72 + 1
  BY <1>1, FS_Interval
<1> QED
  BY <1>1, <1>2 DEF BoardSensors, last

\* Of the sensors still to visit, a visit takes away the one it is at, and
\* no visit adds one.
LEMMA SensorsLeft ==
  ASSUME NEW b \in Boards, NEW S, NEW addr \in S
  PROVE  /\ Cardinality(S \cap BoardSensors(b)) \in Nat
         /\ Cardinality((S \ {addr}) \cap BoardSensors(b)) \in Nat
         /\ Cardinality((S \ {addr}) \cap BoardSensors(b)) <= Cardinality(S \cap BoardSensors(b))
         /\ addr \in BoardSensors(b) =>
              Cardinality((S \ {addr}) \cap BoardSensors(b))
                = Cardinality(S \cap BoardSensors(b)) - 1
<1>1. IsFiniteSet(BoardSensors(b))
  BY FiniteSensors
<1> DEFINE T == S \cap BoardSensors(b)
<1>2. IsFiniteSet(T)
  BY <1>1, FS_Subset
<1>3. (S \ {addr}) \cap BoardSensors(b) = T \ {addr}
  OBVIOUS
<1>4. /\ IsFiniteSet(T \ {addr})
      /\ Cardinality(T \ {addr}) = IF addr \in T THEN Cardinality(T) - 1 ELSE Cardinality(T)
  BY <1>2, FS_RemoveElement
<1>5. Cardinality(T) \in Nat /\ Cardinality(T \ {addr}) \in Nat
  BY <1>2, <1>4, FS_CardinalityType
<1>6. addr \in BoardSensors(b) => addr \in T
  OBVIOUS
<1> HIDE DEF T
<1>7. /\ Cardinality(T \ {addr}) <= Cardinality(T)
      /\ addr \in BoardSensors(b) => Cardinality(T \ {addr}) = Cardinality(T) - 1
  BY <1>4, <1>5, <1>6
<1> QED
  BY <1>3, <1>5, <1>7 DEF T

\* A walk starts with no more than all of them.
LEMMA AllSensorsLeft ==
  ASSUME NEW b \in Boards, NEW S
  PROVE  Cardinality(S \cap BoardSensors(b)) <= NUM_THERMAL_SENSORS(b)
BY FiniteSensors, FS_Subset

Adds(r, t) ==
  /\ system_temp' = Plus(system_temp, t)
  /\ sensors_found' = sensors_found + 1
  /\ own' = [own EXCEPT ![r] = [sum |-> @.sum + t, count |-> @.count + 1]]
  /\ garbled' = garbled

\* What stands on the stack is taken for a reading.
Garbles(r) ==
  /\ \E g \in Garbage : system_temp' = Plus(system_temp, g)
  /\ sensors_found' = sensors_found + 1
  /\ own' = own
  /\ garbled' = garbled \cup {r}

PassesOver == UNCHANGED <<system_temp, sensors_found, own, garbled>>

VisitAt(r, addr) ==
  /\ left' = left \ {addr}
  /\ \/ PassesOver
     \/ addr \in BoardSensors(board) /\ \E t \in Temps : Adds(r, t)
     \/ Garbles(r)

\* What a visit does: it passes a device over, adds what one of the board's
\* own sensors shows, or adds what stands on the stack.
LEMMA VisitSteps ==
  ASSUME TypeOK, NEW r \in Readers, Visit(r)
  PROVE  \E addr \in left : VisitAt(r, addr)
<1>1. PICK addr \in left, due \in is_lm75_data_due :
        /\ left' = left \ {addr}
        /\ \E got \in IF ~lm75_addr_mached(board, addr) THEN {{}}
                      ELSE IF due THEN read_devfile_temp1_input ELSE get_lm75_temp :
             \/ got = {} /\ PassesOver
             \/ \E m \in got : Found(r, m)
  BY Zenon DEF Visit, PassesOver
<1>2. CASE PassesOver
  BY <1>1, <1>2, Zenon DEF VisitAt
<1>3. ASSUME NEW got \in IF ~lm75_addr_mached(board, addr) THEN {{}}
                         ELSE IF due THEN read_devfile_temp1_input ELSE get_lm75_temp,
             NEW m \in got, Found(r, m)
      PROVE  \/ addr \in BoardSensors(board) /\ \E t \in Temps : Adds(r, t)
             \/ Garbles(r)
  <2>1. lm75_addr_mached(board, addr)
    BY <1>3, SMT
  <2>2. addr \in BoardSensors(board)
    BY <2>1, BoardFacts, SMT DEF TypeOK
  <2>3. \/ \E t \in Temps : m = Reading(t, TRUE)
        \/ \E g \in Garbage : m = Reading(g, FALSE)
    <3>1. got \in read_devfile_temp1_input \cup get_lm75_temp
      BY <1>3, <2>1, Zenon
    <3>2. \/ \E t \in Temps : got = {Reading(t, TRUE)}
          \/ \E g \in Garbage : got = {Reading(g, FALSE)}
      BY <1>3, <3>1, Zenon DEF read_devfile_temp1_input, get_lm75_temp
    <3> QED
      BY <1>3, <3>2, Zenon
  <2>4. ASSUME NEW t \in Temps, m = Reading(t, TRUE) PROVE Adds(r, t)
    <3>1. m.temp = t /\ m.real = TRUE
      BY <2>4 DEF Reading
    <3> QED
      BY <1>3, <3>1, Zenon DEF Found, Adds
  <2>5. ASSUME NEW g \in Garbage, m = Reading(g, FALSE) PROVE Garbles(r)
    <3>1. m.temp = g /\ m.real = FALSE
      BY <2>5 DEF Reading
    <3> QED
      BY <1>3, <3>1, Zenon DEF Found, Garbles
  <2> QED
    BY <2>2, <2>3, <2>4, <2>5
<1> QED
  BY <1>1, <1>2, <1>3, Zenon DEF VisitAt

\* A walk that is at a sensor of the board has not found all of them.
LEMMA CountFits ==
  ASSUME TypeOK, WalkInv, NEW r \in Readers, Visit(r),
         NEW addr \in left, addr \in BoardSensors(board)
  PROVE  /\ own[r].count + 1 \in 0..NUM_THERMAL_SENSORS(board)
         /\ own[r].count + 1 + Cardinality((left \ {addr}) \cap BoardSensors(board))
              <= NUM_THERMAL_SENSORS(board)
<1> DEFINE n == own[r].count
           c == Cardinality(left \cap BoardSensors(board))
           d == Cardinality((left \ {addr}) \cap BoardSensors(board))
           N == NUM_THERMAL_SENSORS(board)
<1>1. N \in Nat /\ n \in 0..N
  BY BoardFacts DEF TypeOK
<1>2. c \in Nat /\ d \in Nat /\ d = c - 1
  BY SensorsLeft DEF TypeOK
<1>3. n + c <= N
  BY Zenon DEF Visit, WalkInv
<1> HIDE DEF n, c, d, N
<1>4. n + 1 \in 0..N /\ n + 1 + d <= N
  BY <1>1, <1>2, <1>3
<1> QED
  BY <1>4 DEF n, c, d, N

LEMMA NothingSmall ==
  /\ Nothing.count = 0
  /\ Nothing.sum <= Hottest * Nothing.count /\ Nothing.sum + Hottest * Nothing.count >= 0
BY SMT DEF Nothing, Hottest

-----------------------------------------------------------------------------
(* Type correctness.                                                        *)

LEMMA InitIInv == Init => IInv
<1> SUFFICES ASSUME Init PROVE IInv
  OBVIOUS
<1>1. board \in Boards /\ NUM_THERMAL_SENSORS(board) \in {3, 5}
  BY BoardFacts DEF Init
<1>2. \A r \in Readers : pc[r] = "idle" /\ own[r] = Nothing
  BY DEF Init
<1>3. own \in [Readers -> [sum : Int, count : 0..NUM_THERMAL_SENSORS(board)]]
  BY <1>1 DEF Init, Nothing
<1>4. TypeOK
  BY <1>1, <1>2, <1>3, ReadersAssumption DEF Init, TypeOK
<1>5. WalkInv
  BY <1>2, NothingSmall, Zenon DEF WalkInv
<1> QED
  BY <1>2, <1>4, <1>5 DEF IInv, AloneInv, AloneReturnsSum

LEMMA NextTypeOK == TypeOK /\ WalkInv /\ [Next]_vars => TypeOK'
<1> SUFFICES ASSUME TypeOK, WalkInv, [Next]_vars PROVE TypeOK'
  OBVIOUS
<1>0. board \in Boards /\ NUM_THERMAL_SENSORS(board) \in {3, 5} /\ Of(board).missing \in Int
  BY BoardFacts DEF TypeOK
<1>1. ASSUME NEW r \in Readers, Clear(r) PROVE TypeOK'
  BY <1>0, <1>1 DEF Clear, Goto, Meets, Busy, Nothing, TypeOK
<1>2. ASSUME NEW r \in Readers, StartWalk(r) PROVE TypeOK'
  BY <1>2, ReadersAssumption DEF StartWalk, Goto, TypeOK
<1>3. ASSUME NEW r \in Readers, Visit(r) PROVE TypeOK'
  <2>1. PICK addr \in left : VisitAt(r, addr)
    BY <1>3, VisitSteps
  <2>2. /\ board' = board /\ core_lock' = core_lock /\ pc' = pc /\ overlapped' = overlapped
        /\ pc[r] = "visit"
    BY <1>3 DEF Visit
  <2>3. CASE PassesOver
    BY <2>1, <2>2, <2>3 DEF VisitAt, PassesOver, TypeOK
  <2>4. CASE \E t \in Temps : Adds(r, t) /\ addr \in BoardSensors(board)
    <3>1. PICK t \in Temps : Adds(r, t)
      BY <2>4
    <3>2. Plus(system_temp, t) \in Int /\ t \in Int
      BY PlusType, TempsAssumption, SMT DEF TypeOK
    <3>3. own[r].count + 1 \in 0..NUM_THERMAL_SENSORS(board)
      BY <1>3, <2>1, <2>4, CountFits
    <3> QED
      BY <2>1, <2>2, <3>1, <3>2, <3>3 DEF VisitAt, Adds, TypeOK
  <2>5. CASE Garbles(r)
    <3>1. system_temp' \in Int
      <4>1. PICK g \in Garbage : system_temp' = Plus(system_temp, g)
        BY <2>5 DEF Garbles
      <4>2. g \in Int /\ system_temp \in Int
        <5>1. g \in INT_MIN..INT_MAX
          BY GarbageAssumption, Zenon
        <5>2. INT_MIN \in Int /\ INT_MAX \in Int
          BY SMT DEF INT_MIN, INT_MAX
        <5> QED
          BY <5>1, <5>2, SMT DEF TypeOK
      <4> QED
        BY <4>1, <4>2, PlusType
    <3> QED
      BY <2>1, <2>2, <2>5, <3>1 DEF VisitAt, Garbles, TypeOK
  <2> QED
    BY <2>1, <2>3, <2>4, <2>5 DEF VisitAt
<1>4. ASSUME NEW r \in Readers, EndWalk(r) PROVE TypeOK'
  BY <1>4, ReadersAssumption DEF EndWalk, Goto, TypeOK
<1>5. ASSUME NEW r \in Readers, Check(r) PROVE TypeOK'
  BY <1>0, <1>5 DEF Check, Goto, TypeOK
<1>6. ASSUME NEW r \in Readers, Answer(r) PROVE TypeOK'
  BY <1>0, <1>6 DEF Answer, Goto, Nothing, TypeOK
<1>7. CASE UNCHANGED vars
  BY <1>7 DEF vars, TypeOK
<1> QED
  BY <1>1, <1>2, <1>3, <1>4, <1>5, <1>6, <1>7 DEF Next, get_sys_temp

-----------------------------------------------------------------------------
(* What a walk finds.                                                       *)

\* The numbers a reader has found are small.
LEMMA OwnSmall ==
  ASSUME TypeOK, WalkInv, NEW r \in Readers
  PROVE  /\ own[r].count \in Nat /\ own[r].count <= 5 /\ own[r].sum \in Int
         /\ own[r].sum <= Hottest * own[r].count /\ own[r].sum + Hottest * own[r].count >= 0
<1>1. NUM_THERMAL_SENSORS(board) \in {3, 5}
  BY BoardFacts DEF TypeOK
<1>2. own[r].count \in 0..NUM_THERMAL_SENSORS(board) /\ own[r].sum \in Int
  BY DEF TypeOK
<1>3. own[r].sum <= Hottest * own[r].count /\ own[r].sum + Hottest * own[r].count >= 0
  BY Zenon DEF WalkInv
<1> QED
  BY <1>1, <1>2, <1>3, SMT DEF Hottest

\* A step that finds nothing and starts no walk.
LEMMA WalkKept ==
  ASSUME WalkInv, UNCHANGED <<board, left, own>>,
         \A r \in Readers : pc'[r] \in {"walk", "visit"} => pc'[r] = pc[r]
  PROVE  WalkInv'
BY Zenon DEF WalkInv

LEMMA NextWalkInv == TypeOK /\ WalkInv /\ [Next]_vars => WalkInv'
<1> SUFFICES ASSUME TypeOK, WalkInv, [Next]_vars PROVE WalkInv'
  OBVIOUS
<1>0. board \in Boards
  BY DEF TypeOK
<1>1. ASSUME NEW r \in Readers, Clear(r) PROVE WalkInv'
  <2>1. /\ board' = board /\ left' = left
        /\ own'[r] = Nothing /\ \A o \in Readers \ {r} : own'[o] = own[o] /\ pc'[o] = pc[o]
        /\ pc'[r] = "walk"
    BY <1>1 DEF Clear, Goto, TypeOK
  <2> QED
    BY <2>1, NothingSmall, Zenon DEF WalkInv
<1>2. ASSUME NEW r \in Readers, StartWalk(r) PROVE WalkInv'
  <2>1. /\ own' = own /\ board' = board /\ left' = Lm75(board) /\ core_lock = NoOne
        /\ pc[r] = "walk" /\ pc' = [pc EXCEPT ![r] = "visit"]
    BY <1>2 DEF StartWalk, Goto
  <2>2. \A o \in Readers : pc[o] # "visit"
    BY <2>1, ReadersAssumption DEF TypeOK
  <2>3. Cardinality(left' \cap BoardSensors(board')) <= NUM_THERMAL_SENSORS(board')
    BY <1>0, <2>1, AllSensorsLeft
  <2>4. Cardinality(left' \cap BoardSensors(board')) \in Nat
    BY <1>0, <2>1, FiniteSensors, FS_Subset, FS_CardinalityType
  <2> QED
    BY <2>1, <2>2, <2>3, <2>4, SMT DEF TypeOK, WalkInv
<1>3. ASSUME NEW r \in Readers, Visit(r) PROVE WalkInv'
  <2>1. PICK addr \in left : VisitAt(r, addr)
    BY <1>3, VisitSteps
  <2>2. board' = board /\ pc' = pc /\ pc[r] = "visit" /\ left' = left \ {addr}
    BY <1>3, <2>1 DEF Visit, VisitAt
  <2>3. \A o \in Readers \ {r} : pc[o] # "visit"
    BY <2>2 DEF TypeOK
  <2>4. CASE own' = own
    <3> DEFINE c == Cardinality(left \cap BoardSensors(board))
               d == Cardinality((left \ {addr}) \cap BoardSensors(board))
    <3>1. c \in Nat /\ d \in Nat /\ d <= c
      BY <1>0, SensorsLeft
    <3>2. own[r].count + c <= NUM_THERMAL_SENSORS(board)
      BY <2>2 DEF WalkInv
    <3>3. own[r].count + d <= NUM_THERMAL_SENSORS(board)
      <4> HIDE DEF c, d
      <4>1. own[r].count \in Nat /\ NUM_THERMAL_SENSORS(board) \in {3, 5}
        BY <1>0, BoardFacts, OwnSmall
      <4> QED
        BY <3>1, <3>2, <4>1
    <3> QED
      BY <2>2, <2>3, <2>4, <3>3, Zenon DEF WalkInv
  <2>5. CASE addr \in BoardSensors(board) /\ \E t \in Temps : Adds(r, t)
    <3>1. PICK t \in Temps : Adds(r, t)
      BY <2>5
    <3>2. /\ own[r].count + 1 \in 0..NUM_THERMAL_SENSORS(board)
          /\ own[r].count + 1 + Cardinality((left \ {addr}) \cap BoardSensors(board))
               <= NUM_THERMAL_SENSORS(board)
      BY <1>3, <2>5, CountFits
    <3>3. /\ own'[r].count = own[r].count + 1 /\ own'[r].sum = own[r].sum + t
          /\ \A o \in Readers \ {r} : own'[o] = own[o]
      BY <3>1 DEF Adds, TypeOK
    <3>4. t \in Int /\ t <= Hottest /\ t + Hottest >= 0
      BY TempsAssumption
    <3>5. /\ own'[r].sum <= Hottest * own'[r].count
          /\ own'[r].sum + Hottest * own'[r].count >= 0
      BY <3>3, <3>4, OwnSmall, SMT DEF Hottest
    <3>6. \A o \in Readers \ {r} :
            /\ own'[o].sum <= Hottest * own'[o].count
            /\ own'[o].sum + Hottest * own'[o].count >= 0
            /\ pc'[o] = "walk" => own'[o].count = 0
      BY <2>2, <3>3, Zenon DEF WalkInv
    <3>7. own'[r].count + Cardinality(left' \cap BoardSensors(board'))
            <= NUM_THERMAL_SENSORS(board')
      BY <2>2, <3>2, <3>3, Zenon
    <3>8. pc'[r] # "walk"
      BY <2>2
    <3>9. \A o \in Readers \ {r} : pc'[o] # "visit"
      BY <2>2, <2>3
    <3> QED
      BY <3>5, <3>6, <3>7, <3>8, <3>9, Zenon DEF WalkInv
  <2> QED
    BY <2>1, <2>4, <2>5 DEF VisitAt, PassesOver, Garbles
<1>4. ASSUME NEW r \in Readers, EndWalk(r) PROVE WalkInv'
  BY <1>4, WalkKept DEF EndWalk, Goto, TypeOK
<1>5. ASSUME NEW r \in Readers, Check(r) PROVE WalkInv'
  BY <1>5, WalkKept DEF Check, Goto, TypeOK
<1>6. ASSUME NEW r \in Readers, Answer(r) PROVE WalkInv'
  <2>1. /\ board' = board /\ left' = left
        /\ own'[r] = Nothing /\ \A o \in Readers \ {r} : own'[o] = own[o] /\ pc'[o] = pc[o]
        /\ pc'[r] = "idle"
    BY <1>6 DEF Answer, Goto, TypeOK
  <2> QED
    BY <2>1, NothingSmall, Zenon DEF WalkInv
<1>7. CASE UNCHANGED vars
  BY <1>7, WalkKept DEF vars
<1> QED
  BY <1>1, <1>2, <1>3, <1>4, <1>5, <1>6, <1>7 DEF Next, get_sys_temp

-----------------------------------------------------------------------------
(* A reader alone.                                                          *)

LEMMA NextAlone == IInv /\ [Next]_vars => AloneInv' /\ AloneReturnsSum'
<1> SUFFICES ASSUME TypeOK, WalkInv, AloneInv, AloneReturnsSum, [Next]_vars
             PROVE  AloneInv' /\ AloneReturnsSum'
  BY DEF IInv
<1>1. ASSUME NEW r \in Readers, Clear(r) PROVE AloneInv' /\ AloneReturnsSum'
  <2>1. /\ pc[r] = "idle" /\ pc' = [pc EXCEPT ![r] = "walk"]
        /\ system_temp' = 0 /\ sensors_found' = 0 /\ own' = [own EXCEPT ![r] = Nothing]
    BY <1>1 DEF Clear, Goto
  <2>2. CASE Busy(r) = {}
    <3>1. \A o \in Readers \ {r} : pc[o] = "idle" /\ pc'[o] = "idle"
      BY <2>1, <2>2 DEF Busy, TypeOK
    <3> QED
      BY <2>1, <3>1 DEF TypeOK, Nothing, AloneInv, AloneReturnsSum
  <2>3. CASE Busy(r) # {}
    <3>1. overlapped' = overlapped \cup Busy(r) \cup {r}
      BY <1>1, <2>3 DEF Clear, Meets
    <3>2. \A o \in Readers \ overlapped' : pc'[o] = "idle"
      BY <2>1, <3>1 DEF Busy, TypeOK
    <3> QED
      BY <3>2 DEF AloneInv, AloneReturnsSum
  <2> QED
    BY <2>2, <2>3
<1>2. ASSUME NEW r \in Readers, StartWalk(r) PROVE AloneInv' /\ AloneReturnsSum'
  BY <1>2 DEF StartWalk, Goto, TypeOK, AloneInv, AloneReturnsSum, Right
<1>3. ASSUME NEW r \in Readers, Visit(r) PROVE AloneInv' /\ AloneReturnsSum'
  <2>1. PICK addr \in left : VisitAt(r, addr)
    BY <1>3, VisitSteps
  <2>2. board' = board /\ pc' = pc /\ pc[r] = "visit" /\ overlapped' = overlapped
    BY <1>3 DEF Visit
  <2>3. \A o \in Readers \ overlapped : o # r => pc[o] = "idle"
    BY <2>2 DEF AloneInv
  <2>4. AloneReturnsSum'
    BY <2>2, <2>3 DEF AloneReturnsSum
  <2>5. CASE PassesOver
    BY <2>2, <2>4, <2>5 DEF PassesOver, AloneInv
  <2>6. CASE addr \in BoardSensors(board) /\ \E t \in Temps : Adds(r, t)
    <3>1. PICK t \in Temps : Adds(r, t)
      BY <2>6
    <3>2. /\ own'[r].count = own[r].count + 1 /\ own'[r].sum = own[r].sum + t
          /\ sensors_found' = sensors_found + 1 /\ system_temp' = Plus(system_temp, t)
      BY <3>1 DEF Adds, TypeOK
    <3>3. own[r].count <= 4
      <4>1. NUM_THERMAL_SENSORS(board) \in {3, 5} /\ own[r].count \in Nat
        BY BoardFacts, OwnSmall DEF TypeOK
      <4>2. own[r].count + 1 \in 0..NUM_THERMAL_SENSORS(board)
        BY <1>3, <2>6, CountFits
      <4> QED
        BY <4>1, <4>2, SMT
    <3>4. Plus(own[r].sum, t) = own[r].sum + t
      <4>1. own[r].sum \in Int /\ own[r].sum <= 512000 /\ own[r].sum + 512000 >= 0
        BY <3>3, OwnSmall, SMT DEF Hottest
      <4> QED
        BY <4>1, PlusSmall
    <3>5. r \notin overlapped \cup garbled =>
            system_temp' = own'[r].sum /\ sensors_found' = own'[r].count
      BY <2>2, <3>2, <3>4, Zenon DEF AloneInv
    <3>6. garbled' = garbled
      BY <3>1 DEF Adds
    <3> QED
      BY <2>2, <2>3, <2>4, <3>5, <3>6, Zenon DEF AloneInv
  <2>7. CASE Garbles(r)
    BY <2>2, <2>3, <2>4, <2>7 DEF Garbles, AloneInv
  <2> QED
    BY <2>1, <2>5, <2>6, <2>7 DEF VisitAt
<1>4. ASSUME NEW r \in Readers, EndWalk(r) PROVE AloneInv' /\ AloneReturnsSum'
  BY <1>4 DEF EndWalk, Goto, TypeOK, AloneInv, AloneReturnsSum, Right
<1>5. ASSUME NEW r \in Readers, Check(r) PROVE AloneInv' /\ AloneReturnsSum'
  <2>1. /\ pc[r] = "check" /\ pc' = [pc EXCEPT ![r] = "answer"]
        /\ UNCHANGED <<board, sensors_found, own, overlapped, garbled>>
        /\ system_temp' = IF NUM_THERMAL_SENSORS(board) # sensors_found
                          THEN Of(board).missing ELSE system_temp
    BY <1>5 DEF Check, Goto
  <2>2. \A o \in Readers \ overlapped : o # r => pc[o] = "idle" /\ pc'[o] = "idle"
    BY <2>1 DEF AloneInv, TypeOK
  <2>3. pc'[r] = "answer"
    BY <2>1 DEF TypeOK
  <2>4. AloneInv'
    <3>1. \A o \in Readers \ overlapped' : pc'[o] # "idle" => o = r
      BY <2>1, <2>2
    <3>2. \A q \in Readers \ overlapped' : pc'[q] # "idle" =>
            \A o \in Readers \ {q} : pc'[o] = "idle"
      BY <2>1, <3>1 DEF AloneInv, TypeOK
    <3> QED
      BY <2>3, <3>1, <3>2, Zenon DEF AloneInv
  <2>5. r \notin overlapped \cup garbled => Right(r)'
    BY <2>1 DEF AloneInv, Right
  <2> QED
    BY <2>1, <2>2, <2>4, <2>5 DEF AloneReturnsSum
<1>6. ASSUME NEW r \in Readers, Answer(r) PROVE AloneInv' /\ AloneReturnsSum'
  BY <1>6 DEF Answer, Goto, TypeOK, AloneInv, AloneReturnsSum, Right
<1>7. CASE UNCHANGED vars
  BY <1>7 DEF vars, AloneInv, AloneReturnsSum, Right
<1> QED
  BY <1>1, <1>2, <1>3, <1>4, <1>5, <1>6, <1>7 DEF Next, get_sys_temp

-----------------------------------------------------------------------------
(* SysTemp: the theorems.                                                   *)

\* What a read alone gives out rests on: the walk is under the lock of the i2c
\* core, counts a sensor once, and shares its numbers with nobody
\* (get_sys_temp, accton_as7716_32x_fan.c:573 and its copies).
THEOREM Inductive == Spec => []IInv
<1>1. Init => IInv
  BY InitIInv
<1>2. IInv /\ [Next]_vars => IInv'
  BY NextTypeOK, NextWalkInv, NextAlone DEF IInv
<1> QED
  BY <1>1, <1>2, PTL DEF Spec

\* The state keeps its shape, and who walks the devices holds the lock of the
\* i2c core.
THEOREM TypeCorrect == Spec => []TypeOK
BY Inductive, PTL DEF IInv

\* On each of the six boards, a read that no other overlaps and whose readings
\* are all its sensors' gives out their sum, or the mark for a missing one, and
\* the int never wraps around, whatever earlier reads left behind, those too that
\* took a failed read for a number.
THEOREM Alone == Spec => []AloneReturnsSum
BY Inductive, PTL DEF IInv

-----------------------------------------------------------------------------
(* FanPolicies: the tables and the two roundings.                           *)

LEMMA BoardTables ==
  ASSUME drv \in PolicyBoards
  PROVE  /\ drv \in {"as6712_32x", "as7312_54x", "as7816_64x"}
         /\ ChecksSingle <=> drv # "as7816_64x"
         /\ Rows = IF ChecksSingle THEN 1..4 ELSE 1..5
         /\ fan_policy_f2b \in Policies
         /\ ChecksSingle => fan_policy_b2f \in Policies
         /\ Policies \subseteq {fan_policy_f2b} \cup (IF ChecksSingle THEN {fan_policy_b2f} ELSE {})
         /\ \A pol \in Policies, row \in Rows : pol[row] \in TableDuties
<1>1. drv \in {"as6712_32x", "as7312_54x", "as7816_64x"}
  BY PolicyBoardsAssumption, Zenon
<1>2. ChecksSingle <=> drv # "as7816_64x"
  BY <1>1, Zenon DEF ChecksSingle
<1>3. Len(limits) = IF ChecksSingle THEN 3 ELSE 4
  BY <1>2 DEF limits
<1>4. Rows = IF ChecksSingle THEN 1..4 ELSE 1..5
  <2>1. Rows = 1..(Len(limits) + 1)
    BY Zenon DEF Rows
  <2>2. CASE ChecksSingle
    <3>1. Len(limits) = 3
      BY <1>3, <2>2, Zenon
    <3> QED
      BY <2>1, <2>2, <3>1
  <2>3. CASE ~ChecksSingle
    <3>1. Len(limits) = 4
      BY <1>3, <2>3, Zenon
    <3> QED
      BY <2>1, <2>3, <3>1
  <2> QED
    BY <2>2, <2>3, Zenon
<1>5. \A pol \in Policies, row \in Rows : pol[row] \in TableDuties
  BY DEF TableDuties
<1> QED
  BY <1>1, <1>2, <1>4, <1>5, Zenon DEF Policies

\* The duty cycles of the tables.
LEMMA DutiesAre ==
  ASSUME drv \in PolicyBoards, NEW d \in TableDuties
  PROVE  \/ drv = "as6712_32x" /\ d \in {30, 50, 65, 100, 40, 60, 75}
         \/ drv = "as7312_54x" /\ d \in {32, 50, 63, 100, 44, 75}
         \/ drv = "as7816_64x" /\ d \in {52, 64, 76, 88, 100}
<1>1. PICK pol \in Policies, row \in Rows : d = pol[row]
  BY DEF TableDuties
<1>2. CASE drv = "as6712_32x"
  <2>1. fan_policy_f2b = <<30, 50, 65, 100>> /\ fan_policy_b2f = <<40, 60, 75, 100>>
    BY <1>2, Zenon DEF fan_policy_f2b, fan_policy_b2f, max_duty
  <2>2. row \in 1..4 /\ (pol = <<30, 50, 65, 100>> \/ pol = <<40, 60, 75, 100>>)
    BY <1>2, <2>1, BoardTables
  <2> QED
    BY <1>1, <1>2, <2>2
<1>3. CASE drv = "as7312_54x"
  <2>1. fan_policy_f2b = <<32, 50, 63, 100>> /\ fan_policy_b2f = <<44, 63, 75, 100>>
    BY <1>3, Zenon DEF fan_policy_f2b, fan_policy_b2f, max_duty
  <2>2. row \in 1..4 /\ (pol = <<32, 50, 63, 100>> \/ pol = <<44, 63, 75, 100>>)
    BY <1>3, <2>1, BoardTables
  <2> QED
    BY <1>1, <1>3, <2>2
<1>4. CASE drv = "as7816_64x"
  <2>1. fan_policy_f2b = <<52, 64, 76, 88, 100>>
    BY <1>4, Zenon DEF fan_policy_f2b, max_duty
  <2>2. row \in 1..5 /\ pol = <<52, 64, 76, 88, 100>>
    BY <1>4, <2>1, BoardTables
  <2> QED
    BY <1>1, <1>4, <2>2
<1> QED
  BY <1>2, <1>3, <1>4, BoardTables

\* A duty cycle of a table survives both roundings.
LEMMA BothRoundings ==
  ASSUME drv \in PolicyBoards, NEW d \in TableDuties
  PROVE  d \in 1..100 /\ reg_val_to_duty_cycle(duty_cycle_to_reg_val(d)) = d
<1>1. CASE drv = "as6712_32x"
  <2>1. d \in {30, 50, 65, 100, 40, 60, 75}
    BY <1>1, DutiesAre
  <2>2. duty_cycle_to_reg_val(d) = d \div 5
    BY <1>1, Zenon DEF duty_cycle_to_reg_val
  <2>3. reg_val_to_duty_cycle(d \div 5) = (d \div 5) * 5
    BY <1>1, Zenon DEF reg_val_to_duty_cycle
  <2> QED
    BY <2>1, <2>2, <2>3
<1>2. CASE drv = "as7312_54x"
  <2>1. d \in {32, 50, 63, 100, 44, 75}
    BY <1>2, DutiesAre
  <2> DEFINE r == ((d * 100) \div 625 - 1) % 256
  <2>2. duty_cycle_to_reg_val(d) = r
    BY <1>2, Zenon DEF duty_cycle_to_reg_val
  <2>3. reg_val_to_duty_cycle(r) = (((r % 16) + 1) * 625 + 75) \div 100
    BY <1>2, Zenon DEF reg_val_to_duty_cycle
  <2>4. (((r % 16) + 1) * 625 + 75) \div 100 = d
    BY <2>1
  <2> QED
    BY <2>1, <2>2, <2>3, <2>4
<1>3. CASE drv = "as7816_64x"
  <2>1. d \in {52, 64, 76, 88, 100}
    BY <1>3, DutiesAre
  <2>2. duty_cycle_to_reg_val(d) = IF d = 100 THEN 15 ELSE (d - 10) \div 6
    BY <1>3, <2>1 DEF duty_cycle_to_reg_val
  <2>3. \A r \in 1..15 : reg_val_to_duty_cycle(r) = IF r = 15 THEN 100 ELSE r * 6 + 10
    BY <1>3 DEF reg_val_to_duty_cycle
  <2> QED
    BY <2>1, <2>2, <2>3
<1> QED
  BY <1>1, <1>2, <1>3, BoardTables

\* What a duty cycle is in a register, and what a register shows.
LEMMA ToRegister ==
  ASSUME drv \in PolicyBoards, NEW d \in 0..100
  PROVE  /\ duty_cycle_to_reg_val(d) \in 0..255
         /\ drv = "as6712_32x" => duty_cycle_to_reg_val(d) <= 20
<1>1. CASE drv = "as6712_32x"
  <2>1. duty_cycle_to_reg_val(d) = d \div 5
    BY <1>1, Zenon DEF duty_cycle_to_reg_val
  <2> QED
    BY <2>1
<1>2. CASE drv = "as7312_54x"
  <2>1. duty_cycle_to_reg_val(d) = ((d * 100) \div 625 - 1) % 256
    BY <1>2, Zenon DEF duty_cycle_to_reg_val
  <2> QED
    BY <1>2, <2>1
<1>3. CASE drv = "as7816_64x"
  BY <1>3 DEF duty_cycle_to_reg_val
<1> QED
  BY <1>1, <1>2, <1>3, BoardTables

LEMMA FromRegister ==
  ASSUME drv \in PolicyBoards, NEW r \in 0..255, drv = "as6712_32x" => r <= 20
  PROVE  reg_val_to_duty_cycle(r) \in 0..100
<1>1. CASE drv = "as6712_32x"
  <2>1. reg_val_to_duty_cycle(r) = r * 5
    BY <1>1, Zenon DEF reg_val_to_duty_cycle
  <2> QED
    BY <1>1, <2>1
<1>2. CASE drv = "as7312_54x"
  <2>1. reg_val_to_duty_cycle(r) = (((r % 16) + 1) * 625 + 75) \div 100
    BY <1>2, Zenon DEF reg_val_to_duty_cycle
  <2> QED
    BY <2>1
<1>3. CASE drv = "as7816_64x"
  <2>1. r % 16 \in 0..15
    OBVIOUS
  <2> QED
    BY <1>3, <2>1 DEF reg_val_to_duty_cycle
<1> QED
  BY <1>1, <1>2, <1>3, BoardTables

\* The largest of some duty cycles of the tables is one of them.
LEMMA MaxOfDuties ==
  ASSUME drv \in PolicyBoards, NEW S, S \subseteq TableDuties, S # {}
  PROVE  Max(S) \in S
<1> SUFFICES \E m \in S : \A y \in S : m >= y
  BY Zenon DEF Max
<1>1. S \subseteq {30, 32, 40, 44, 50, 52, 60, 63, 64, 65, 75, 76, 88, 100}
  BY DutiesAre
<1>2. CASE 100 \in S
  BY <1>1, <1>2
<1>3. CASE 100 \notin S /\ 88 \in S
  BY <1>1, <1>3
<1>4. CASE S \cap {88, 100} = {} /\ 76 \in S
  BY <1>1, <1>4
<1>5. CASE S \cap {76, 88, 100} = {} /\ 75 \in S
  BY <1>1, <1>5
<1>6. CASE S \cap {75, 76, 88, 100} = {} /\ 65 \in S
  BY <1>1, <1>6
<1>7. CASE S \subseteq {30, 32, 40, 44, 50, 52, 60, 63, 64}
  <2>1. CASE 64 \in S
    BY <1>7, <2>1
  <2>2. CASE 64 \notin S /\ 63 \in S
    BY <1>7, <2>2
  <2>3. CASE S \cap {63, 64} = {} /\ 60 \in S
    BY <1>7, <2>3
  <2>4. CASE S \cap {60, 63, 64} = {} /\ 52 \in S
    BY <1>7, <2>4
  <2>5. CASE S \cap {52, 60, 63, 64} = {} /\ 50 \in S
    BY <1>7, <2>5
  <2>6. CASE S \cap {50, 52, 60, 63, 64} = {} /\ 44 \in S
    BY <1>7, <2>6
  <2>7. CASE S \subseteq {30, 32, 40}
    <3>1. CASE 40 \in S
      BY <2>7, <3>1
    <3>2. CASE 40 \notin S /\ 32 \in S
      BY <2>7, <3>2
    <3>3. CASE S = {30}
      BY <3>3
    <3> QED
      BY <2>7, <3>1, <3>2, <3>3
  <2> QED
    BY <1>7, <2>1, <2>2, <2>3, <2>4, <2>5, <2>6, <2>7
<1> QED
  BY <1>1, <1>2, <1>3, <1>4, <1>5, <1>6, <1>7

LEMMA MaxOfTwo ==
  ASSUME NEW a \in Int, NEW b \in Int
  PROVE  Max({a, b}) = IF a >= b THEN a ELSE b
<1>1. Max({a, b}) = CHOOSE m \in {a, b} : \A y \in {a, b} : m >= y
  BY Zenon DEF Max
<1>2. \E m \in {a, b} : \A y \in {a, b} : m >= y
  OBVIOUS
<1>3. Max({a, b}) \in {a, b} /\ \A y \in {a, b} : Max({a, b}) >= y
  BY <1>1, <1>2, Zenon
<1> QED
  BY <1>3

\* The rows that are asked for are rows of the table.
LEMMA RowsAsked ==
  ASSUME drv \in PolicyBoards, NEW t
  PROVE  /\ InSomeRow(t) => RowOf(t) \in Rows
         /\ ChecksSingle => SingleRow(t) \in Rows
<1>1. InSomeRow(t) => RowOf(t) \in Rows
  BY Zenon DEF InSomeRow, RowOf
<1>2. SingleRow(t) \in 1..4
  <2> DEFINE S == {y \in DOMAIN fan_policy_single : t > fan_policy_single[y]}
  <2>1. S \subseteq 1..3
    BY DEF fan_policy_single
  <2>2. IsFiniteSet(1..3) /\ Cardinality(1..3) = 3
    <3>1. 1 \in Int /\ 3 \in Int
      OBVIOUS
    <3>2. IsFiniteSet(1..3) /\ Cardinality(1..3) = IF 1 > 3 THEN 0 ELSE 3 - 1 + 1
      BY <3>1, FS_Interval, Zenon
    <3> QED
      BY <3>2
  <2>3. Cardinality(S) <= Cardinality(1..3) /\ Cardinality(S) \in Nat
    BY <2>1, <2>2, FS_Subset, FS_CardinalityType, Zenon
  <2> HIDE DEF S
  <2>4. 1 + Cardinality(S) \in 1..4
    BY <2>2, <2>3
  <2> QED
    BY <2>4, Zenon DEF S, SingleRow
<1> QED
  BY <1>1, <1>2, BoardTables

\* What single sensors ask for is in the table.
LEMMA SingleInTable ==
  ASSUME drv \in PolicyBoards, ChecksSingle, temp \in Readings(drv), policy \in Policies
  PROVE  SingleResult(policy) \in TableDuties
<1> DEFINE S == {policy[SingleRow(temp[s])] : s \in DOMAIN temp}
<1>1. S \subseteq TableDuties
  <2>1. \A s \in DOMAIN temp : policy[SingleRow(temp[s])] \in TableDuties
    BY BoardTables, RowsAsked, Zenon
  <2> QED
    BY <2>1, Zenon
<1>2. S # {}
  <2>1. temp \in Seq(Int) /\ Len(temp) > 0
    BY ReadingsAssumption, Zenon
  <2>2. 1 \in DOMAIN temp
    BY <2>1
  <2> QED
    BY <2>2, Zenon
<1>3. Max(S) \in S
  <2> HIDE DEF S
  <2> QED
    BY <1>1, <1>2, MaxOfDuties
<1> QED
  BY <1>1, <1>3, Zenon DEF SingleResult

-----------------------------------------------------------------------------
(* FanPolicies: the inductive invariant.                                    *)

LEMMA PolicyInitInv == PolicyInit => PolicyIInv
<1> SUFFICES ASSUME PolicyInit
             PROVE  PolicyIInv
  OBVIOUS
<1>1. drv \in PolicyBoards
  BY Zenon DEF PolicyInit
<1>2. duty_cycle_to_reg_val(max_duty) \in 0..255
      /\ (drv = "as6712_32x" => duty_cycle_to_reg_val(max_duty) <= 20)
  <2>1. max_duty \in 0..100
    BY DEF max_duty
  <2> QED
    BY <1>1, <2>1, ToRegister
<1>3. hw \in Registers /\ (drv = "as6712_32x" => hw.reg <= 20)
  <2>1. hw \in [reg : BootRegs \cup {duty_cycle_to_reg_val(max_duty)}, faults : Faulty, dir : Dirs]
    BY Zenon DEF PolicyInit
  <2>2. hw.reg \in BootRegs \cup {duty_cycle_to_reg_val(max_duty)}
    BY <2>1
  <2>3. hw.reg \in 0..255 /\ (drv = "as6712_32x" => hw.reg <= 20)
    <3>1. CASE hw.reg \in BootRegs
      <4>1. hw.reg \in 0..15
        BY <3>1, BootRegsAssumption, Zenon
      <4> QED
        BY <4>1
    <3>2. CASE hw.reg = duty_cycle_to_reg_val(max_duty)
      BY <1>2, <3>2, Zenon
    <3> QED
      BY <2>2, <3>1, <3>2
  <2> QED
    BY <2>1, <2>3, FaultyAssumption DEF Registers
<1>4. PolicyTypeOK
  <2>1. temp \in Readings(drv) /\ cache = NONE /\ expired = FALSE /\ stage = "fan" /\ policy = <<>>
    BY Zenon DEF PolicyInit
  <2>2. x \in 1..NumFans /\ {single_result, cur_duty_cycle, new_duty_cycle} \subseteq 0..100
    BY NumFansAssumption DEF PolicyInit
  <2> QED
    BY <1>1, <1>3, <2>1, <2>2, Zenon DEF PolicyTypeOK
<1>5. DecideInv
  BY DEF PolicyInit, DecideInv
<1>6. StepsInv
  BY <1>3, Zenon DEF PolicyInit, StepsInv, valid
<1> QED
  BY <1>4, <1>5, <1>6 DEF PolicyIInv

\* The tables are those of the board, which stays.
LEMMA SameBoard ==
  ASSUME drv' = drv
  PROVE  /\ ChecksSingle' = ChecksSingle /\ Policies' = Policies /\ TableDuties' = TableDuties
         /\ fan_policy_f2b' = fan_policy_f2b /\ fan_policy_b2f' = fan_policy_b2f
<1>1. /\ ChecksSingle' = ChecksSingle
      /\ fan_policy_f2b' = fan_policy_f2b /\ fan_policy_b2f' = fan_policy_b2f
      /\ limits' = limits
  <2>1. ChecksSingle' = ChecksSingle
    BY DEF ChecksSingle
  <2>2. fan_policy_f2b' = fan_policy_f2b
    BY DEF fan_policy_f2b
  <2>3. fan_policy_b2f' = fan_policy_b2f
    BY DEF fan_policy_b2f
  <2>4. limits' = limits
    BY DEF limits
  <2> QED
    BY <2>1, <2>2, <2>3, <2>4, Zenon
<1>2. Policies' = Policies /\ Rows' = Rows
  BY <1>1, Zenon DEF Policies, Rows
<1> QED
  BY <1>1, <1>2 DEF TableDuties

\* What the driver keeps of the registers.
CopyOK ==
  /\ cache \in Registers \cup {NONE} /\ expired \in BOOLEAN
  /\ hw \in Registers
  /\ StepsInv

LEMMA RefreshKeeps ==
  ASSUME CopyOK, UpdateDevice, UNCHANGED <<drv, hw>>
  PROVE  CopyOK'
<1>1. CASE UNCHANGED driver
  BY <1>1, Zenon DEF driver, CopyOK, StepsInv, valid
<1>2. CASE cache' \in Seen \cup {NONE} /\ expired' = FALSE
  <2>1. ASSUME NEW c \in Seen
        PROVE  c \in Registers /\ c.reg = hw.reg
    <3>1. CASE drv = "as6712_32x"
      <4>1. PICK d \in Dirs \cup {hw.dir} : c = [hw EXCEPT !.dir = d]
        BY <3>1 DEF Seen
      <4>2. hw \in [reg : 0..255, faults : SUBSET (1..NumFans), dir : Dirs]
        BY DEF CopyOK, Registers
      <4> QED
        BY <4>1, <4>2 DEF Registers
    <3>2. CASE drv # "as6712_32x"
      <4>1. c = hw
        BY <3>2, Zenon DEF Seen
      <4> QED
        BY <4>1, Zenon DEF CopyOK
    <3> QED
      BY <3>1, <3>2
  <2>2. cache' \in Registers \cup {NONE}
    BY <1>2, <2>1
  <2>3. (StepsInv)'
    <3>1. valid' => cache'.reg = hw.reg
      BY <1>2, <2>1 DEF valid
    <3> QED
      BY <3>1, Zenon DEF CopyOK, StepsInv
  <2> QED
    BY <1>2, <2>2, <2>3 DEF CopyOK
<1> QED
  BY <1>1, <1>2 DEF UpdateDevice

LEMMA WriteKeeps ==
  ASSUME CopyOK, drv \in PolicyBoards, NEW d \in 0..100, SetDutyCycle(d), drv' = drv
  PROVE  CopyOK'
<1>1. /\ duty_cycle_to_reg_val(d) \in 0..255
      /\ drv = "as6712_32x" => duty_cycle_to_reg_val(d) <= 20
  BY ToRegister
<1>2. hw' \in Registers /\ hw'.reg \in {hw.reg, duty_cycle_to_reg_val(d)}
  BY <1>1 DEF SetDutyCycle, CopyOK, Registers
<1>3. cache' \in {NONE, cache} /\ expired' = expired
  BY Zenon DEF SetDutyCycle
<1>4. StepsInv'
  BY <1>1, <1>2, <1>3 DEF CopyOK, StepsInv, valid
<1> QED
  BY <1>2, <1>3, <1>4 DEF CopyOK

\* The places of manage_fans and its local variables.
Stages == {"fan", "fault", "dir", "single", "duty", "sum", "set", "dead"}

LocalsOK ==
  /\ stage \in Stages
  /\ x \in 1..NumFans
  /\ policy \in {<<>>, fan_policy_f2b} \cup (IF ChecksSingle THEN {fan_policy_b2f} ELSE {})
  /\ single_result \in 0..100 /\ cur_duty_cycle \in 0..100 /\ new_duty_cycle \in 0..100
  /\ DecideInv

LEMMA Parts ==
  PolicyIInv <=> drv \in PolicyBoards /\ temp \in Readings(drv) /\ CopyOK /\ LocalsOK
<1>1. {single_result, cur_duty_cycle, new_duty_cycle} \subseteq 0..100
        <=> single_result \in 0..100 /\ cur_duty_cycle \in 0..100 /\ new_duty_cycle \in 0..100
  BY Zenon
<1> QED
  BY <1>1, Zenon DEF PolicyIInv, PolicyTypeOK, CopyOK, LocalsOK, Stages

\* A pass that is over, or a process that is, has no local variables.
LEMMA FreshLocals ==
  ASSUME PolicyIInv, drv' = drv, NoLocals, stage' \in {"fan", "fault", "dead"}
  PROVE  LocalsOK'
<1>1. x' \in 1..NumFans
  BY NumFansAssumption DEF NoLocals
<1>2. single_result' \in 0..100 /\ cur_duty_cycle' \in 0..100 /\ new_duty_cycle' \in 0..100
  BY DEF NoLocals
<1>3. DecideInv'
  BY SameBoard DEF NoLocals, DecideInv
<1> QED
  BY <1>1, <1>2, <1>3 DEF LocalsOK, NoLocals, Stages

\* Nor are they touched by others.
LEMMA LocalsStay ==
  ASSUME PolicyIInv, drv' = drv, UNCHANGED <<stage, locals>>
  PROVE  LocalsOK'
<1>1. LocalsOK
  BY Parts, Zenon
<1>2. DecideInv'
  BY <1>1, SameBoard DEF LocalsOK, DecideInv, locals
<1> QED
  BY <1>1, <1>2, SameBoard DEF LocalsOK, locals

\* The next fan, and the choice of a table.
LEMMA NextFanLocals ==
  ASSUME PolicyIInv, drv' = drv, stage = "fan", NextFan
  PROVE  LocalsOK'
<1>1. LocalsOK
  BY Parts, Zenon
<1>2. x' \in 1..NumFans /\ stage' \in {"fan", "dir"}
  BY <1>1, NumFansAssumption DEF LocalsOK, NextFan
<1>3. DecideInv'
  BY <1>1, <1>2, SameBoard DEF LocalsOK, DecideInv, NextFan
<1> QED
  BY <1>1, <1>2, <1>3, SameBoard DEF LocalsOK, Stages, NextFan

LEMMA ChooseLocals ==
  ASSUME PolicyIInv, drv' = drv, stage = "dir", NEW dir, ChoosePolicy(dir)
  PROVE  LocalsOK'
<1>1. LocalsOK /\ drv \in PolicyBoards
  BY Parts, Zenon
<1>2. policy' \in Policies
  <2>1. policy' \in {fan_policy_f2b, fan_policy_b2f}
    BY Zenon DEF ChoosePolicy, PolicyOf
  <2>2. ~ChecksSingle => policy' = fan_policy_f2b
    BY <1>1, BoardTables, Zenon DEF ChoosePolicy, PolicyOf
  <2> QED
    BY <2>1, <2>2, Zenon DEF Policies
<1>3. /\ stage' = IF ChecksSingle THEN "single" ELSE "duty"
      /\ UNCHANGED <<x, single_result, cur_duty_cycle, new_duty_cycle>>
  BY Zenon DEF ChoosePolicy
<1>4. DecideInv'
  BY <1>1, <1>2, <1>3, SameBoard DEF LocalsOK, DecideInv
<1> QED
  BY <1>1, <1>2, <1>3, <1>4, SameBoard DEF LocalsOK, Stages, Policies

LEMMA NextDecide ==
  ASSUME PolicyIInv, Decide
  PROVE  LocalsOK'
<1>1. drv \in PolicyBoards /\ temp \in Readings(drv) /\ CopyOK /\ LocalsOK /\ drv' = drv
  BY Parts, Zenon DEF Decide, Dies, world
<1>2. CASE Dies
  BY <1>1, <1>2, FreshLocals, Zenon DEF Dies
<1> DEFINE t == get_thermal_temp
           sum == SumResult(policy, t, cur_duty_cycle)
           new == Max({sum, single_result})
<1>3. CASE /\ new = cur_duty_cycle
           /\ stage' = "fan" /\ NoLocals
  BY <1>1, <1>3, FreshLocals
<1>4. CASE /\ new # cur_duty_cycle
           /\ stage' = "set" /\ new_duty_cycle' = new
           /\ x' = 1 /\ policy' = <<>> /\ single_result' = 0 /\ cur_duty_cycle' = 0
  <2>1. policy \in Policies /\ stage = "sum"
    BY <1>1, Zenon DEF Decide, LocalsOK, DecideInv
  <2>2. sum = cur_duty_cycle \/ sum \in TableDuties
    <3>1. CASE InSomeRow(t)
      <4>1. RowOf(t) \in Rows
        BY <1>1, <3>1, RowsAsked
      <4> QED
        BY <1>1, <2>1, <3>1, <4>1, BoardTables, Zenon DEF SumResult
    <3>2. CASE ~InSomeRow(t)
      BY <3>2, Zenon DEF SumResult
    <3> QED
      BY <3>1, <3>2
  <2>3. IF ChecksSingle THEN single_result \in TableDuties ELSE single_result = 0
    BY <1>1, <2>1, Zenon DEF LocalsOK, DecideInv
  <2>4. cur_duty_cycle \in 0..100 /\ single_result \in 0..100
    BY <1>1, Zenon DEF LocalsOK
  <2>5. sum \in 0..100
    <3>1. \A d \in TableDuties : d \in 0..100
      BY <1>1, BothRoundings
    <3> QED
      BY <2>2, <2>4, <3>1, Zenon
  <2>6. new = IF sum >= single_result THEN sum ELSE single_result
    <3> HIDE DEF sum
    <3>1. sum \in Int /\ single_result \in Int
      BY <2>4, <2>5
    <3> QED
      BY <3>1, MaxOfTwo, Zenon
  <2>7. new \in TableDuties
    <3> HIDE DEF sum, new
    <3> QED
      BY <1>4, <2>2, <2>3, <2>4, <2>5, <2>6
  <2>8. new \in 0..100
    BY <2>4, <2>5, <2>6, Zenon
  <2>9. DecideInv'
    BY <1>1, <1>4, <2>7, SameBoard DEF DecideInv
  <2> QED
    BY <1>1, <1>4, <2>8, <2>9, NumFansAssumption DEF LocalsOK, Stages
<1> QED
  BY <1>2, <1>3, <1>4, Zenon DEF Decide

LEMMA NextLocals ==
  ASSUME PolicyIInv, PolicyNext
  PROVE  LocalsOK'
<1>1. /\ drv \in PolicyBoards /\ temp \in Readings(drv) /\ CopyOK /\ LocalsOK
      /\ drv' = drv
  <2>1. drv' = drv
    BY Zenon DEF PolicyNext, manage_fans, CheckFan, SetMaxDuty, ReadDir, ReadSingle, ReadDuty,
                 NodeMissing, Decide, SetPolicyDuty, OtherReader, OperatorSets, Expire, TempChange, FansChange, Kill, Dies,
                 Restart, world
  <2> QED
    BY <2>1, Parts, Zenon
<1>2. CASE CheckFan
  <2>1. CASE stage' = "fault" /\ UNCHANGED locals
    <3>1. DecideInv'
      BY <1>1, <2>1, SameBoard DEF LocalsOK, DecideInv, locals
    <3> QED
      BY <1>1, <2>1, <3>1, SameBoard DEF LocalsOK, Stages, locals
  <2>2. CASE NextFan
    BY <1>1, <1>2, <2>2, NextFanLocals, Zenon DEF CheckFan
  <2> QED
    BY <1>2, <2>1, <2>2, Zenon DEF CheckFan
<1>3. CASE SetMaxDuty
  BY <1>1, <1>3, FreshLocals, Zenon DEF SetMaxDuty
<1>4. CASE ReadDir
  BY <1>1, <1>4, ChooseLocals, Zenon DEF ReadDir
<1>5. CASE ReadSingle
  <2>1. CASE Dies
    BY <1>1, <2>1, FreshLocals, Zenon DEF Dies
  <2>2. CASE /\ single_result' = SingleResult(policy)
             /\ stage' = "duty"
             /\ UNCHANGED <<world, hw, driver, x, policy, cur_duty_cycle, new_duty_cycle>>
    <3>1. policy \in Policies /\ stage = "single"
      BY <1>1, <1>5, Zenon DEF ReadSingle, LocalsOK, DecideInv
    <3>2. ChecksSingle
      BY <1>1, <3>1, Zenon DEF LocalsOK, DecideInv
    <3>3. single_result' \in TableDuties
      BY <1>1, <2>2, <3>1, <3>2, SingleInTable
    <3>4. single_result' \in 0..100
      BY <1>1, <3>3, BothRoundings
    <3>5. DecideInv'
      BY <1>1, <2>2, <3>1, <3>2, <3>3, SameBoard DEF LocalsOK, DecideInv
    <3> QED
      BY <1>1, <2>2, <3>4, <3>5, SameBoard DEF LocalsOK, Stages
  <2> QED
    BY <1>5, <2>1, <2>2, Zenon DEF ReadSingle
<1>6. CASE ReadDuty
  <2>1. CASE stage' = "dead" /\ NoLocals
    BY <1>1, <2>1, FreshLocals, Zenon
  <2>2. CASE /\ valid'
             /\ cur_duty_cycle' = reg_val_to_duty_cycle(cache'.reg)
             /\ stage' = "sum"
             /\ UNCHANGED <<x, policy, single_result, new_duty_cycle>>
    <3>1. CopyOK'
      BY <1>1, <1>6, RefreshKeeps, Zenon DEF ReadDuty, world
    <3>2. cache'.reg \in 0..255 /\ (drv = "as6712_32x" => cache'.reg <= 20)
      <4>1. cache' \in Registers
        BY <2>2, <3>1, Zenon DEF CopyOK, valid
      <4>2. cache'.reg \in 0..255
        BY <4>1 DEF Registers
      <4>3. drv = "as6712_32x" => cache'.reg <= 20
        BY <1>1, <2>2, <3>1, Zenon DEF CopyOK, StepsInv
      <4> QED
        BY <4>2, <4>3
    <3>3. cur_duty_cycle' \in 0..100
      BY <1>1, <2>2, <3>2, FromRegister
    <3>4. stage = "duty"
      BY <1>6, Zenon DEF ReadDuty
    <3>5. DecideInv'
      BY <1>1, <2>2, <3>4, SameBoard DEF LocalsOK, DecideInv
    <3> QED
      BY <1>1, <2>2, <3>3, <3>5, SameBoard DEF LocalsOK, Stages
  <2> QED
    BY <1>6, <2>1, <2>2, Zenon DEF ReadDuty
<1>7. CASE Decide
  BY <1>7, NextDecide
<1>8. CASE SetPolicyDuty
  BY <1>1, <1>8, FreshLocals, Zenon DEF SetPolicyDuty
<1>9. CASE OtherReader \/ OperatorSets \/ Expire \/ TempChange \/ FansChange
  BY <1>1, <1>9, LocalsStay, Zenon DEF OtherReader, OperatorSets, Expire, TempChange, FansChange
<1>10. CASE Kill \/ Restart
  BY <1>1, <1>10, FreshLocals, Zenon DEF Kill, Dies, Restart
<1>11. CASE NodeMissing
  <2>1. CASE stage = "fan" /\ NextFan
    BY <1>1, <2>1, NextFanLocals, Zenon
  <2>2. CASE stage = "dir" /\ ChoosePolicy(NONE)
    BY <1>1, <2>2, ChooseLocals, Zenon
  <2>3. CASE /\ stage = "duty" /\ cur_duty_cycle' = 0 /\ stage' = "sum"
             /\ UNCHANGED <<x, policy, single_result, new_duty_cycle>>
    <3>1. DecideInv'
      BY <1>1, <2>3, SameBoard DEF LocalsOK, DecideInv
    <3> QED
      BY <1>1, <2>3, <3>1, SameBoard DEF LocalsOK, Stages
  <2> QED
    BY <1>11, <2>1, <2>2, <2>3, Zenon DEF NodeMissing
<1> QED
  BY <1>2, <1>3, <1>4, <1>5, <1>6, <1>7, <1>8, <1>9, <1>10, <1>11, Zenon
     DEF PolicyNext, manage_fans

LEMMA NextCopy ==
  ASSUME PolicyIInv, PolicyNext
  PROVE  drv' \in PolicyBoards /\ temp' \in Readings(drv)' /\ CopyOK'
<1>1. drv \in PolicyBoards /\ temp \in Readings(drv) /\ CopyOK /\ LocalsOK
  BY Parts, Zenon
<1>2. CASE manage_fans
  <2>1. UNCHANGED world
    BY <1>2, Zenon DEF manage_fans, CheckFan, SetMaxDuty, ReadDir, ReadSingle, ReadDuty,
                       NodeMissing, Decide, SetPolicyDuty, Dies
  <2>2. drv' = drv /\ temp' = temp
    BY <2>1, Zenon DEF world
  <2>3. CASE UpdateDevice /\ UNCHANGED hw
    BY <1>1, <2>2, <2>3, RefreshKeeps, Zenon
  <2>4. CASE UNCHANGED <<hw, driver>>
    BY <1>1, <2>2, <2>4, Zenon DEF driver, CopyOK, StepsInv, valid
  <2>5. CASE \E d \in 0..100 : SetDutyCycle(d)
    BY <1>1, <2>2, <2>5, WriteKeeps, Zenon
  <2>6. CASE CheckFan \/ ReadDuty
    BY <2>3, <2>6, Zenon DEF CheckFan, ReadDuty
  <2>7. CASE ReadDir
    <3>1. UNCHANGED <<world, hw>> /\ (UNCHANGED driver \/ UpdateDevice)
      BY <2>7, Zenon DEF ReadDir
    <3> QED
      BY <2>3, <2>4, <3>1, Zenon
  <2>8. CASE ReadSingle \/ Decide \/ NodeMissing
    BY <2>4, <2>8, Zenon DEF ReadSingle, Decide, NodeMissing, Dies
  <2>9. CASE SetMaxDuty
    <3>1. SetDutyCycle(max_duty) /\ max_duty \in 0..100
      BY <2>9 DEF SetMaxDuty, max_duty
    <3> QED
      BY <2>5, <3>1, Zenon
  <2>10. CASE SetPolicyDuty
    <3>1. SetDutyCycle(new_duty_cycle) /\ new_duty_cycle \in 0..100
      BY <1>1, <2>10, Zenon DEF SetPolicyDuty, LocalsOK
    <3> QED
      BY <2>5, <3>1, Zenon
  <2>11. drv' \in PolicyBoards /\ temp' \in Readings(drv)'
    BY <1>1, <2>2, Zenon
  <2> QED
    BY <1>2, <2>6, <2>7, <2>8, <2>9, <2>10, <2>11, Zenon DEF manage_fans
<1>3. CASE OtherReader
  <2>1. drv' = drv /\ temp' = temp /\ UNCHANGED <<drv, hw>> /\ UpdateDevice
    BY <1>3, Zenon DEF OtherReader, world
  <2> QED
    BY <1>1, <2>1, RefreshKeeps, Zenon
<1>4. CASE OperatorSets
  <2>1. PICK d \in Operator : SetDutyCycle(d)
    BY <1>4, Zenon DEF OperatorSets
  <2>2. drv' = drv /\ temp' = temp
    BY <1>4, Zenon DEF OperatorSets, world
  <2>3. d \in 0..100
    BY OperatorAssumption, Zenon
  <2>4. CopyOK'
    BY <1>1, <2>1, <2>2, <2>3, WriteKeeps, Zenon
  <2> QED
    BY <1>1, <2>2, <2>4, Zenon
<1>5. CASE Expire
  <2>1. drv' = drv /\ temp' = temp /\ hw' = hw /\ cache' = cache /\ expired' = TRUE
    BY <1>5, Zenon DEF Expire, world
  <2> QED
    BY <1>1, <2>1, Zenon DEF CopyOK, StepsInv, valid
<1>6. CASE TempChange
  <2>1. drv' = drv /\ temp' \in Readings(drv) /\ hw' = hw /\ cache' = cache /\ expired' = expired
    BY <1>6, Zenon DEF TempChange, driver
  <2> QED
    BY <1>1, <2>1, Zenon DEF CopyOK, StepsInv, valid
<1>7. CASE FansChange
  <2>1. PICK f \in Faulty : hw' = [hw EXCEPT !.faults = f]
    BY <1>7, Zenon DEF FansChange
  <2>2. drv' = drv /\ temp' = temp /\ cache' = cache /\ expired' = expired
    BY <1>7, Zenon DEF FansChange, world, driver
  <2>3. hw' \in Registers /\ hw'.reg = hw.reg
    <3>1. f \in SUBSET (1..NumFans)
      BY FaultyAssumption
    <3>2. hw \in [reg : 0..255, faults : SUBSET (1..NumFans), dir : Dirs]
      BY <1>1, Zenon DEF CopyOK, Registers
    <3> QED
      BY <2>1, <3>1, <3>2 DEF Registers
  <2> QED
    BY <1>1, <2>2, <2>3, Zenon DEF CopyOK, StepsInv, valid
<1>8. CASE Kill \/ Restart
  <2>1. drv' = drv /\ temp' = temp /\ hw' = hw /\ cache' = cache /\ expired' = expired
    BY <1>8, Zenon DEF Kill, Dies, Restart, world, driver
  <2> QED
    BY <1>1, <2>1, Zenon DEF CopyOK, StepsInv, valid
<1> QED
  BY <1>2, <1>3, <1>4, <1>5, <1>6, <1>7, <1>8, Zenon DEF PolicyNext

LEMMA PolicyInductive == PolicySpec => []PolicyIInv
<1>1. (drv \in PolicyBoards /\ temp \in Readings(drv) /\ CopyOK /\ LocalsOK)' => PolicyIInv'
  BY Parts, PTL
<1>2. PolicyIInv /\ PolicyNext => PolicyIInv'
  BY <1>1, NextCopy, NextLocals
<1>3. PolicyIInv /\ UNCHANGED policyVars => PolicyIInv'
  <2> SUFFICES ASSUME PolicyIInv, UNCHANGED policyVars
               PROVE  PolicyIInv'
    OBVIOUS
  <2>1. /\ drv' = drv /\ temp' = temp /\ hw' = hw /\ cache' = cache /\ expired' = expired
        /\ UNCHANGED <<stage, locals>>
    BY Zenon DEF policyVars, world, driver
  <2>2. drv \in PolicyBoards /\ temp \in Readings(drv) /\ CopyOK
    BY Parts, Zenon
  <2>3. CopyOK'
    BY <2>1, <2>2, Zenon DEF CopyOK, StepsInv, valid
  <2>4. LocalsOK'
    BY <2>1, LocalsStay
  <2> QED
    BY <1>1, <2>1, <2>2, <2>3, <2>4, Zenon
<1> QED
  BY <1>2, <1>3, PolicyInitInv, PTL DEF PolicySpec

-----------------------------------------------------------------------------
(* FanPolicies: the theorems.                                               *)

\* The state of the daemons of AS6712-32X, AS7312-54X and AS7816-64X and of
\* their drivers keeps its shape: every duty cycle is one in percent, though
\* drivers compute it from registers of eight bits (fan_show_value).
THEOREM PolicyTypeCorrect == PolicySpec => []PolicyTypeOK
BY PolicyInductive, PTL DEF PolicyIInv

\* Whatever the sensors say, fans do and others write, a duty cycle these
\* daemons decide on (manage_fans) is shown by the driver when it is written
\* (duty_cycle_to_reg_val and back): it is always one of the board's tables.
THEOREM DecidedShown == PolicySpec => []DecidedIsShown
<1>1. PolicyIInv => DecidedIsShown
  BY BothRoundings, Zenon DEF PolicyIInv, PolicyTypeOK, DecideInv, DecidedIsShown
<1> QED
  BY <1>1, PolicyInductive, PTL

=============================================================================
