------------------------ MODULE DriverLifecycle_proofs ------------------------
(***************************************************************************)
(* Proofs about DriverLifecycle: for every driver of DriverTables, any      *)
(* number of processes, and whichever steps may fail but the registration   *)
(* of an LED (OnlyRegistered says what happens then).                       *)
(***************************************************************************)
EXTENDS DriverLifecycle, TLAPS

-----------------------------------------------------------------------------
(* The tables: what is acquired in which order, and what gives it back.      *)

\* What init and probe do: data comes before what is stored in it and before
\* the ways to it, and a way after all that its users need.
InOrder(r, behind, late) ==
  /\ r.init \in Seq(Resource) /\ r.probe \in Seq(Resource)
  /\ Range(r.init) \cap Ways = {} /\ "client" \notin r.uses
  /\ \A j \in DOMAIN r.init : r.init[j] = "data" => \A i \in 1..(j - 1) : r.init[i] # "ready"
  /\ \A j \in DOMAIN r.probe : r.probe[j] = "data" =>
       /\ "ready" \notin Range(r.init)
       /\ \A i \in 1..(j - 1) : r.probe[i] \notin Ways \cup {"ready"}
  /\ \A j \in DOMAIN r.probe : r.probe[j] \in Ways \ ({"client"} \cup behind) =>
       (IF late THEN r.uses \ {"ready"} ELSE r.uses)
         \subseteq Range(r.init) \cup {r.probe[i] : i \in 1..(j - 1)}

\* What gives back the steps that are done.
GivesBack(steps, done, uses, behind) ==
  GoesBack(steps, uses, behind) /\ Range(steps) \subseteq done /\ done \subseteq behind \cup GivenBack(steps)

\* What is undone when a step of init fails.
UndoesInit(r, behind) ==
  \A j \in DOMAIN r.init : r.init[j] \notin Settings \cup {"client"} =>
    GivesBack(r.initFails[r.init[j]], {r.init[i] : i \in 1..(j - 1)}, r.uses, behind)

\* And of probe, if it is not an LED's.
UndoesProbe(r, behind) ==
  \A j \in DOMAIN r.probe : r.probe[j] \notin Settings \cup {"client"} \cup Leds =>
    GivesBack(r.probeFails[r.probe[j]], {r.probe[i] : i \in 1..(j - 1)}, r.uses, behind)

\* Remove undoes probe, and exit init.
Undoes(r, behind) ==
  /\ GivesBack(r.remove, Range(r.probe), r.uses, behind)
  /\ GivesBack(r.exit, Range(r.init), r.uses, behind)
  /\ Range(r.probe) \cap Range(r.init) = {}
  /\ "data" \in Range(r.probe) => "ready" \notin Range(r.init)

Orderly(r, behind, late) ==
  InOrder(r, behind, late) /\ UndoesInit(r, behind) /\ UndoesProbe(r, behind) /\ Undoes(r, behind)

LEMMA WithIs ==
  ASSUME NEW shape, NEW probe, NEW probeFails, NEW remove
  PROVE  LET r == With(shape, probe, probeFails, remove)
         IN  /\ r.init = shape.init /\ r.initFails = shape.initFails
             /\ r.exit = shape.exit /\ r.uses = shape.uses
             /\ r.probe = probe /\ r.probeFails = probeFails /\ r.remove = remove
BY DEF With

LEMMA NothingToUndo ==
  ASSUME NEW f, NEW uses, NEW behind
  PROVE  GivesBack(<<>>, {f[i] : i \in 1..(1 - 1)}, uses, behind)
<1>1. DOMAIN <<>> = {} /\ {f[i] : i \in 1..(1 - 1)} = {} /\ <<>> \in Seq(Resource)
  OBVIOUS
<1>2. Range(<<>>) = {}
  BY <1>1 DEF Range
<1> QED
  BY <1>1, <1>2 DEF GivesBack, GoesBack, GivenBack

LEMMA I2cUndoes ==
  ASSUME NEW r, NEW behind, r.init = <<"drv">>, r.initFails = [drv |-> <<>>]
  PROVE  UndoesInit(r, behind)
<1>1. DOMAIN r.init = {1} /\ r.init[1] = "drv" /\ r.initFails["drv"] = <<>>
  OBVIOUS
<1> QED
  BY <1>1, NothingToUndo DEF UndoesInit

LEMMA PlatformUndoes ==
  ASSUME NEW r, NEW behind, r.init = <<"drv", "data", "ready", "pdev">>,
         r.initFails = [drv |-> <<>>, data |-> <<"drv">>, pdev |-> <<"drv", "data">>]
  PROVE  UndoesInit(r, behind)
<1> SUFFICES ASSUME NEW j \in 1..4, r.init[j] \notin Settings
             PROVE  GivesBack(r.initFails[r.init[j]], {r.init[i] : i \in 1..(j - 1)}, r.uses, behind)
  BY DOMAIN r.init = 1..4 DEF UndoesInit
<1>1. CASE j = 1
  BY <1>1, NothingToUndo
<1>2. CASE j = 2
  BY <1>2 DEF GivesBack, GoesBack, GivenBack, Resource, Ways, Leds, Range
<1>4. CASE j = 4
  <2>1. r.initFails[r.init[j]] = <<"drv", "data">> /\ {r.init[i] : i \in 1..(j - 1)} = {"drv", "data", "ready"}
    BY <1>4
  <2>2. GivesBack(<<"drv", "data">>, {"drv", "data", "ready"}, r.uses, behind)
    BY DEF GivesBack, GoesBack, GivenBack, Resource, Ways, Leds, Range
  <2> QED
    BY <2>1, <2>2
<1> QED
  BY <1>1, <1>2, <1>4 DEF Settings

LEMMA HwmonOrderly == Orderly(Hwmon, {}, FALSE)
<1> DEFINE r == Hwmon
<1>1. /\ r.init = <<"drv">> /\ r.exit = <<"drv">>
      /\ r.initFails = [drv |-> <<>>]
      /\ r.uses = {"data", "ready"}
      /\ r.probe = <<"data", "ready", "files", "hwmon">>
      /\ r.remove = <<"hwmon", "files", "data">>
      /\ r.probeFails = [data |-> <<>>, files |-> <<"data">>, hwmon |-> <<"files", "data">>]
  BY WithIs DEF Hwmon, I2c
<1> HIDE DEF r
<1>2. DOMAIN r.probe = 1..4
  BY <1>1
<1>3. InOrder(r, {}, FALSE)
  BY <1>1 DEF InOrder, Resource, Ways, Leds, Range
<1>4. UndoesInit(r, {})
  BY <1>1, I2cUndoes
<1>5. UndoesProbe(r, {})
  <2> SUFFICES ASSUME NEW j \in 1..4, r.probe[j] \notin Settings \cup {"client"}
               PROVE  GivesBack(r.probeFails[r.probe[j]], {r.probe[i] : i \in 1..(j - 1)}, r.uses, {})
    BY <1>2 DEF UndoesProbe
  <2>1. CASE j = 1
    BY <1>1, <2>1, NothingToUndo
  <2>3. CASE j = 3
    <3>1. /\ r.probeFails[r.probe[j]] = <<"data">>
          /\ {r.probe[i] : i \in 1..(j - 1)} = {"data", "ready"}
      BY <1>1, <2>3
    <3>2. GivesBack(<<"data">>, {"data", "ready"}, r.uses, {})
      BY <1>1 DEF GivesBack, GoesBack, GivenBack, Resource, Ways, Leds, Range
    <3> QED
      BY <3>1, <3>2
  <2>4. CASE j = 4
    <3>1. /\ r.probeFails[r.probe[j]] = <<"files", "data">>
          /\ {r.probe[i] : i \in 1..(j - 1)} = {"data", "ready", "files"}
      BY <1>1, <2>4
    <3>2. GivesBack(<<"files", "data">>, {"data", "ready", "files"}, r.uses, {})
      BY <1>1 DEF GivesBack, GoesBack, GivenBack, Resource, Ways, Leds, Range
    <3> QED
      BY <3>1, <3>2
  <2>5. j # 2
    <3>1. r.probe[2] = "ready"
      BY <1>1
    <3> QED
      BY <3>1 DEF Settings
  <2> QED
    BY <2>1, <2>3, <2>4, <2>5
<1>6. Undoes(r, {})
  BY <1>1 DEF Undoes, GivesBack, GoesBack, GivenBack, Resource, Ways, Leds, Range
<1> QED
  BY <1>3, <1>4, <1>5, <1>6 DEF Orderly, r

LEMMA HwmonClientOrderly == Orderly(HwmonClient, {}, FALSE)
<1> DEFINE r == HwmonClient
<1>1. /\ r.init = <<"drv">> /\ r.exit = <<"drv">>
      /\ r.initFails = [drv |-> <<>>]
      /\ r.uses = {"data", "ready"}
      /\ r.probe = <<"data", "ready", "files", "hwmon", "client">>
      /\ r.remove = <<"hwmon", "files", "data", "client">>
      /\ r.probeFails = [data |-> <<>>, files |-> <<"data">>, hwmon |-> <<"files", "data">>]
  BY WithIs DEF Hwmon, HwmonClient, I2c
<1> HIDE DEF r
<1>2. DOMAIN r.probe = 1..5
  BY <1>1
<1>3. InOrder(r, {}, FALSE)
  BY <1>1 DEF InOrder, Resource, Ways, Leds, Range
<1>4. UndoesInit(r, {})
  BY <1>1, I2cUndoes
<1>5. UndoesProbe(r, {})
  <2> SUFFICES ASSUME NEW j \in 1..5, r.probe[j] \notin Settings \cup {"client"}
               PROVE  GivesBack(r.probeFails[r.probe[j]], {r.probe[i] : i \in 1..(j - 1)}, r.uses, {})
    BY <1>2 DEF UndoesProbe
  <2>1. CASE j = 1
    BY <1>1, <2>1, NothingToUndo
  <2>3. CASE j = 3
    <3>1. /\ r.probeFails[r.probe[j]] = <<"data">>
          /\ {r.probe[i] : i \in 1..(j - 1)} = {"data", "ready"}
      BY <1>1, <2>3
    <3>2. GivesBack(<<"data">>, {"data", "ready"}, r.uses, {})
      BY <1>1 DEF GivesBack, GoesBack, GivenBack, Resource, Ways, Leds, Range
    <3> QED
      BY <3>1, <3>2
  <2>4. CASE j = 4
    <3>1. /\ r.probeFails[r.probe[j]] = <<"files", "data">>
          /\ {r.probe[i] : i \in 1..(j - 1)} = {"data", "ready", "files"}
      BY <1>1, <2>4
    <3>2. GivesBack(<<"files", "data">>, {"data", "ready", "files"}, r.uses, {})
      BY <1>1 DEF GivesBack, GoesBack, GivenBack, Resource, Ways, Leds, Range
    <3> QED
      BY <3>1, <3>2
  <2>6. j # 2
    <3>1. r.probe[2] = "ready"
      BY <1>1
    <3> QED
      BY <3>1 DEF Settings
  <2>7. j # 5
    <3>1. r.probe[5] = "client"
      BY <1>1
    <3> QED
      BY <3>1 DEF Settings
  <2> QED
    BY <2>1, <2>3, <2>4, <2>6, <2>7
<1>6. Undoes(r, {})
  BY <1>1 DEF Undoes, GivesBack, GoesBack, GivenBack, Resource, Ways, Leds, Range
<1> QED
  BY <1>3, <1>4, <1>5, <1>6 DEF Orderly, r

LEMMA FanOfDeviceOrderly == Orderly(FanOfDevice, {"data", "ready"}, FALSE)
<1> DEFINE r == FanOfDevice
<1>1. /\ r.init = <<"drv">> /\ r.exit = <<"drv">>
      /\ r.initFails = [drv |-> <<>>]
      /\ r.uses = {"data", "ready"}
      /\ r.probe = <<"data", "ready", "files", "hwmon">>
      /\ r.remove = <<"hwmon", "files">>
      /\ r.probeFails = [data |-> <<>>, files |-> <<"data">>, hwmon |-> <<"files", "data">>]
  BY WithIs DEF Hwmon, FanOfDevice, I2c
<1> HIDE DEF r
<1>2. DOMAIN r.probe = 1..4
  BY <1>1
<1>3. InOrder(r, {"data", "ready"}, FALSE)
  BY <1>1 DEF InOrder, Resource, Ways, Leds, Range
<1>4. UndoesInit(r, {"data", "ready"})
  BY <1>1, I2cUndoes
<1>5. UndoesProbe(r, {"data", "ready"})
  <2> SUFFICES ASSUME NEW j \in 1..4, r.probe[j] \notin Settings \cup {"client"}
               PROVE  GivesBack(r.probeFails[r.probe[j]], {r.probe[i] : i \in 1..(j - 1)}, r.uses, {"data", "ready"})
    BY <1>2 DEF UndoesProbe
  <2>1. CASE j = 1
    BY <1>1, <2>1, NothingToUndo
  <2>3. CASE j = 3
    <3>1. /\ r.probeFails[r.probe[j]] = <<"data">>
          /\ {r.probe[i] : i \in 1..(j - 1)} = {"data", "ready"}
      BY <1>1, <2>3
    <3>2. GivesBack(<<"data">>, {"data", "ready"}, r.uses, {"data", "ready"})
      BY <1>1 DEF GivesBack, GoesBack, GivenBack, Resource, Ways, Leds, Range
    <3> QED
      BY <3>1, <3>2
  <2>4. CASE j = 4
    <3>1. /\ r.probeFails[r.probe[j]] = <<"files", "data">>
          /\ {r.probe[i] : i \in 1..(j - 1)} = {"data", "ready", "files"}
      BY <1>1, <2>4
    <3>2. GivesBack(<<"files", "data">>, {"data", "ready", "files"}, r.uses, {"data", "ready"})
      BY <1>1 DEF GivesBack, GoesBack, GivenBack, Resource, Ways, Leds, Range
    <3> QED
      BY <3>1, <3>2
  <2>5. j # 2
    <3>1. r.probe[2] = "ready"
      BY <1>1
    <3> QED
      BY <3>1 DEF Settings
  <2> QED
    BY <2>1, <2>3, <2>4, <2>5
<1>6. Undoes(r, {"data", "ready"})
  BY <1>1 DEF Undoes, GivesBack, GoesBack, GivenBack, Resource, Ways, Leds, Range
<1> QED
  BY <1>3, <1>4, <1>5, <1>6 DEF Orderly, r

LEMMA CpldOrderly == Orderly(Cpld, {}, FALSE)
<1> DEFINE r == Cpld
<1>1. /\ r.init = <<"drv">> /\ r.exit = <<"drv">>
      /\ r.initFails = [drv |-> <<>>]
      /\ r.uses = {"data", "ready"}
      /\ r.probe = <<"data", "ready", "files", "client">>
      /\ r.remove = <<"client", "files", "data">>
      /\ r.probeFails = [data |-> <<>>, files |-> <<"data">>]
  BY WithIs DEF Cpld, I2c
<1> HIDE DEF r
<1>2. DOMAIN r.probe = 1..4
  BY <1>1
<1>3. InOrder(r, {}, FALSE)
  BY <1>1 DEF InOrder, Resource, Ways, Leds, Range
<1>4. UndoesInit(r, {})
  BY <1>1, I2cUndoes
<1>5. UndoesProbe(r, {})
  <2> SUFFICES ASSUME NEW j \in 1..4, r.probe[j] \notin Settings \cup {"client"}
               PROVE  GivesBack(r.probeFails[r.probe[j]], {r.probe[i] : i \in 1..(j - 1)}, r.uses, {})
    BY <1>2 DEF UndoesProbe
  <2>1. CASE j = 1
    BY <1>1, <2>1, NothingToUndo
  <2>3. CASE j = 3
    <3>1. /\ r.probeFails[r.probe[j]] = <<"data">>
          /\ {r.probe[i] : i \in 1..(j - 1)} = {"data", "ready"}
      BY <1>1, <2>3
    <3>2. GivesBack(<<"data">>, {"data", "ready"}, r.uses, {})
      BY <1>1 DEF GivesBack, GoesBack, GivenBack, Resource, Ways, Leds, Range
    <3> QED
      BY <3>1, <3>2
  <2>5. j # 2
    <3>1. r.probe[2] = "ready"
      BY <1>1
    <3> QED
      BY <3>1 DEF Settings
  <2>6. j # 4
    <3>1. r.probe[4] = "client"
      BY <1>1
    <3> QED
      BY <3>1 DEF Settings
  <2> QED
    BY <2>1, <2>3, <2>5, <2>6
<1>6. Undoes(r, {})
  BY <1>1 DEF Undoes, GivesBack, GoesBack, GivenBack, Resource, Ways, Leds, Range
<1> QED
  BY <1>3, <1>4, <1>5, <1>6 DEF Orderly, r

LEMMA CpldMuxOrderly == Orderly(CpldMux, {}, FALSE)
<1> DEFINE r == CpldMux
<1>1. /\ r.init = <<"drv">> /\ r.exit = <<"drv">>
      /\ r.initFails = [drv |-> <<>>]
      /\ r.uses = {"data", "ready"}
      /\ r.probe = <<"data", "ready", "mux", "files", "client">>
      /\ r.remove = <<"client", "files", "mux", "data">>
      /\ r.probeFails = [data |-> <<>>, mux |-> <<"data">>, files |-> <<"mux", "data">>]
  BY WithIs DEF CpldMux, I2c
<1> HIDE DEF r
<1>2. DOMAIN r.probe = 1..5
  BY <1>1
<1>3. InOrder(r, {}, FALSE)
  BY <1>1 DEF InOrder, Resource, Ways, Leds, Range
<1>4. UndoesInit(r, {})
  BY <1>1, I2cUndoes
<1>5. UndoesProbe(r, {})
  <2> SUFFICES ASSUME NEW j \in 1..5, r.probe[j] \notin Settings \cup {"client"}
               PROVE  GivesBack(r.probeFails[r.probe[j]], {r.probe[i] : i \in 1..(j - 1)}, r.uses, {})
    BY <1>2 DEF UndoesProbe
  <2>1. CASE j = 1
    BY <1>1, <2>1, NothingToUndo
  <2>3. CASE j = 3
    <3>1. /\ r.probeFails[r.probe[j]] = <<"data">>
          /\ {r.probe[i] : i \in 1..(j - 1)} = {"data", "ready"}
      BY <1>1, <2>3
    <3>2. GivesBack(<<"data">>, {"data", "ready"}, r.uses, {})
      BY <1>1 DEF GivesBack, GoesBack, GivenBack, Resource, Ways, Leds, Range
    <3> QED
      BY <3>1, <3>2
  <2>4. CASE j = 4
    <3>1. /\ r.probeFails[r.probe[j]] = <<"mux", "data">>
          /\ {r.probe[i] : i \in 1..(j - 1)} = {"data", "ready", "mux"}
      BY <1>1, <2>4
    <3>2. GivesBack(<<"mux", "data">>, {"data", "ready", "mux"}, r.uses, {})
      BY <1>1 DEF GivesBack, GoesBack, GivenBack, Resource, Ways, Leds, Range
    <3> QED
      BY <3>1, <3>2
  <2>6. j # 2
    <3>1. r.probe[2] = "ready"
      BY <1>1
    <3> QED
      BY <3>1 DEF Settings
  <2>7. j # 5
    <3>1. r.probe[5] = "client"
      BY <1>1
    <3> QED
      BY <3>1 DEF Settings
  <2> QED
    BY <2>1, <2>3, <2>4, <2>6, <2>7
<1>6. Undoes(r, {})
  BY <1>1 DEF Undoes, GivesBack, GoesBack, GivenBack, Resource, Ways, Leds, Range
<1> QED
  BY <1>3, <1>4, <1>5, <1>6 DEF Orderly, r

LEMMA AcctonPmbus3yOrderly == Orderly(accton_pmbus_3y, {}, FALSE)
<1> DEFINE r == accton_pmbus_3y
<1>1. /\ r.init = <<"drv">> /\ r.exit = <<"drv">>
      /\ r.initFails = [drv |-> <<>>]
      /\ r.uses = {"data", "ready", "attrs"}
      /\ r.probe = <<"data", "ready", "attrs", "files">>
      /\ r.remove = <<"files", "attrs", "data">>
      /\ r.probeFails = [data |-> <<>>, attrs |-> <<"data">>, files |-> <<"attrs", "data">>]
  BY WithIs DEF accton_pmbus_3y, I2c
<1> HIDE DEF r
<1>2. DOMAIN r.probe = 1..4
  BY <1>1
<1>3. InOrder(r, {}, FALSE)
  BY <1>1 DEF InOrder, Resource, Ways, Leds, Range
<1>4. UndoesInit(r, {})
  BY <1>1, I2cUndoes
<1>5. UndoesProbe(r, {})
  <2> SUFFICES ASSUME NEW j \in 1..4, r.probe[j] \notin Settings \cup {"client"}
               PROVE  GivesBack(r.probeFails[r.probe[j]], {r.probe[i] : i \in 1..(j - 1)}, r.uses, {})
    BY <1>2 DEF UndoesProbe
  <2>1. CASE j = 1
    BY <1>1, <2>1, NothingToUndo
  <2>3. CASE j = 3
    <3>1. /\ r.probeFails[r.probe[j]] = <<"data">>
          /\ {r.probe[i] : i \in 1..(j - 1)} = {"data", "ready"}
      BY <1>1, <2>3
    <3>2. GivesBack(<<"data">>, {"data", "ready"}, r.uses, {})
      BY <1>1 DEF GivesBack, GoesBack, GivenBack, Resource, Ways, Leds, Range
    <3> QED
      BY <3>1, <3>2
  <2>4. CASE j = 4
    <3>1. /\ r.probeFails[r.probe[j]] = <<"attrs", "data">>
          /\ {r.probe[i] : i \in 1..(j - 1)} = {"data", "ready", "attrs"}
      BY <1>1, <2>4
    <3>2. GivesBack(<<"attrs", "data">>, {"data", "ready", "attrs"}, r.uses, {})
      BY <1>1 DEF GivesBack, GoesBack, GivenBack, Resource, Ways, Leds, Range
    <3> QED
      BY <3>1, <3>2
  <2>5. j # 2
    <3>1. r.probe[2] = "ready"
      BY <1>1
    <3> QED
      BY <3>1 DEF Settings
  <2> QED
    BY <2>1, <2>3, <2>4, <2>5
<1>6. Undoes(r, {})
  BY <1>1 DEF Undoes, GivesBack, GoesBack, GivenBack, Resource, Ways, Leds, Range
<1> QED
  BY <1>3, <1>4, <1>5, <1>6 DEF Orderly, r

LEMMA As581254tAcctonI2cCpldOrderly == Orderly(as5812_54t_accton_i2c_cpld, {}, FALSE)
<1> DEFINE r == as5812_54t_accton_i2c_cpld
<1>1. /\ r.init = <<"drv">> /\ r.exit = <<"drv">>
      /\ r.initFails = [drv |-> <<>>]
      /\ r.uses = {}
      /\ r.probe = <<"files", "client">>
      /\ r.remove = <<"files", "client">>
      /\ r.probeFails = [files |-> <<>>]
  BY WithIs DEF as5812_54t_accton_i2c_cpld, I2c
<1> HIDE DEF r
<1>2. DOMAIN r.probe = 1..2
  BY <1>1
<1>3. InOrder(r, {}, FALSE)
  BY <1>1 DEF InOrder, Resource, Ways, Leds, Range
<1>4. UndoesInit(r, {})
  BY <1>1, I2cUndoes
<1>5. UndoesProbe(r, {})
  <2> SUFFICES ASSUME NEW j \in 1..2, r.probe[j] \notin Settings \cup {"client"}
               PROVE  GivesBack(r.probeFails[r.probe[j]], {r.probe[i] : i \in 1..(j - 1)}, r.uses, {})
    BY <1>2 DEF UndoesProbe
  <2>1. CASE j = 1
    BY <1>1, <2>1, NothingToUndo
  <2>3. j # 2
    <3>1. r.probe[2] = "client"
      BY <1>1
    <3> QED
      BY <3>1 DEF Settings
  <2> QED
    BY <2>1, <2>3
<1>6. Undoes(r, {})
  BY <1>1 DEF Undoes, GivesBack, GoesBack, GivenBack, Resource, Ways, Leds, Range
<1> QED
  BY <1>3, <1>4, <1>5, <1>6 DEF Orderly, r

LEMMA CommonAcctonI2cCpldOrderly == Orderly(common_accton_i2c_cpld, {}, FALSE)
<1> DEFINE r == common_accton_i2c_cpld
<1>1. /\ r.init = <<"drv">> /\ r.exit = <<"drv">>
      /\ r.initFails = [drv |-> <<>>]
      /\ r.uses = {"data", "ready", "attrs"}
      /\ r.probe = <<"data", "ready", "attrs", "files", "hwmon", "client">>
      /\ r.remove = <<"hwmon", "files", "attrs", "client", "data">>
      /\ r.probeFails = [data |-> <<>>, attrs |-> <<"data">>, files |-> <<"attrs", "data">>, hwmon |-> <<"files", "attrs", "data">>]
  BY WithIs DEF common_accton_i2c_cpld, I2c
<1> HIDE DEF r
<1>2. DOMAIN r.probe = 1..6
  BY <1>1
<1>3. InOrder(r, {}, FALSE)
  BY <1>1 DEF InOrder, Resource, Ways, Leds, Range
<1>4. UndoesInit(r, {})
  BY <1>1, I2cUndoes
<1>5. UndoesProbe(r, {})
  <2> SUFFICES ASSUME NEW j \in 1..6, r.probe[j] \notin Settings \cup {"client"}
               PROVE  GivesBack(r.probeFails[r.probe[j]], {r.probe[i] : i \in 1..(j - 1)}, r.uses, {})
    BY <1>2 DEF UndoesProbe
  <2>1. CASE j = 1
    BY <1>1, <2>1, NothingToUndo
  <2>3. CASE j = 3
    <3>1. /\ r.probeFails[r.probe[j]] = <<"data">>
          /\ {r.probe[i] : i \in 1..(j - 1)} = {"data", "ready"}
      BY <1>1, <2>3
    <3>2. GivesBack(<<"data">>, {"data", "ready"}, r.uses, {})
      BY <1>1 DEF GivesBack, GoesBack, GivenBack, Resource, Ways, Leds, Range
    <3> QED
      BY <3>1, <3>2
  <2>4. CASE j = 4
    <3>1. /\ r.probeFails[r.probe[j]] = <<"attrs", "data">>
          /\ {r.probe[i] : i \in 1..(j - 1)} = {"data", "ready", "attrs"}
      BY <1>1, <2>4
    <3>2. GivesBack(<<"attrs", "data">>, {"data", "ready", "attrs"}, r.uses, {})
      BY <1>1 DEF GivesBack, GoesBack, GivenBack, Resource, Ways, Leds, Range
    <3> QED
      BY <3>1, <3>2
  <2>5. CASE j = 5
    <3>1. /\ r.probeFails[r.probe[j]] = <<"files", "attrs", "data">>
          /\ {r.probe[i] : i \in 1..(j - 1)} = {"data", "ready", "attrs", "files"}
      BY <1>1, <2>5
    <3>2. GivesBack(<<"files", "attrs", "data">>, {"data", "ready", "attrs", "files"}, r.uses, {})
      BY <1>1 DEF GivesBack, GoesBack, GivenBack, Resource, Ways, Leds, Range
    <3> QED
      BY <3>1, <3>2
  <2>7. j # 2
    <3>1. r.probe[2] = "ready"
      BY <1>1
    <3> QED
      BY <3>1 DEF Settings
  <2>8. j # 6
    <3>1. r.probe[6] = "client"
      BY <1>1
    <3> QED
      BY <3>1 DEF Settings
  <2> QED
    BY <2>1, <2>3, <2>4, <2>5, <2>7, <2>8
<1>6. Undoes(r, {})
  BY <1>1 DEF Undoes, GivesBack, GoesBack, GivenBack, Resource, Ways, Leds, Range
<1> QED
  BY <1>3, <1>4, <1>5, <1>6 DEF Orderly, r

LEMMA As781664xSfpOrderly == Orderly(as7816_64x_sfp, {"buf"}, TRUE)
<1> DEFINE r == as7816_64x_sfp
<1>1. /\ r.init = <<"drv">> /\ r.exit = <<"drv">>
      /\ r.initFails = [drv |-> <<>>]
      /\ r.uses = {"data", "ready", "port", "buf"}
      /\ r.probe = <<"port", "buf", "data", "files", "bin", "ready">>
      /\ r.remove = <<"bin", "files", "data", "port">>
      /\ r.probeFails = [port |-> <<>>, buf |-> <<"port">>, data |-> <<"buf", "port">>, files |-> <<"data", "buf", "port">>, bin |-> <<"files", "data", "buf", "port">>]
  BY WithIs DEF as7816_64x_sfp, I2c
<1> HIDE DEF r
<1>2. DOMAIN r.probe = 1..6
  BY <1>1
<1>3. InOrder(r, {"buf"}, TRUE)
  BY <1>1 DEF InOrder, Resource, Ways, Leds, Range
<1>4. UndoesInit(r, {"buf"})
  BY <1>1, I2cUndoes
<1>5. UndoesProbe(r, {"buf"})
  <2> SUFFICES ASSUME NEW j \in 1..6, r.probe[j] \notin Settings \cup {"client"}
               PROVE  GivesBack(r.probeFails[r.probe[j]], {r.probe[i] : i \in 1..(j - 1)}, r.uses, {"buf"})
    BY <1>2 DEF UndoesProbe
  <2>1. CASE j = 1
    BY <1>1, <2>1, NothingToUndo
  <2>2. CASE j = 2
    <3>1. /\ r.probeFails[r.probe[j]] = <<"port">>
          /\ {r.probe[i] : i \in 1..(j - 1)} = {"port"}
      BY <1>1, <2>2
    <3>2. GivesBack(<<"port">>, {"port"}, r.uses, {"buf"})
      BY <1>1 DEF GivesBack, GoesBack, GivenBack, Resource, Ways, Leds, Range
    <3> QED
      BY <3>1, <3>2
  <2>3. CASE j = 3
    <3>1. /\ r.probeFails[r.probe[j]] = <<"buf", "port">>
          /\ {r.probe[i] : i \in 1..(j - 1)} = {"port", "buf"}
      BY <1>1, <2>3
    <3>2. GivesBack(<<"buf", "port">>, {"port", "buf"}, r.uses, {"buf"})
      BY <1>1 DEF GivesBack, GoesBack, GivenBack, Resource, Ways, Leds, Range
    <3> QED
      BY <3>1, <3>2
  <2>4. CASE j = 4
    <3>1. /\ r.probeFails[r.probe[j]] = <<"data", "buf", "port">>
          /\ {r.probe[i] : i \in 1..(j - 1)} = {"port", "buf", "data"}
      BY <1>1, <2>4
    <3>2. GivesBack(<<"data", "buf", "port">>, {"port", "buf", "data"}, r.uses, {"buf"})
      BY <1>1 DEF GivesBack, GoesBack, GivenBack, Resource, Ways, Leds, Range
    <3> QED
      BY <3>1, <3>2
  <2>5. CASE j = 5
    <3>1. /\ r.probeFails[r.probe[j]] = <<"files", "data", "buf", "port">>
          /\ {r.probe[i] : i \in 1..(j - 1)} = {"port", "buf", "data", "files"}
      BY <1>1, <2>5
    <3>2. GivesBack(<<"files", "data", "buf", "port">>, {"port", "buf", "data", "files"}, r.uses, {"buf"})
      BY <1>1 DEF GivesBack, GoesBack, GivenBack, Resource, Ways, Leds, Range
    <3> QED
      BY <3>1, <3>2
  <2>7. j # 6
    <3>1. r.probe[6] = "ready"
      BY <1>1
    <3> QED
      BY <3>1 DEF Settings
  <2> QED
    BY <2>1, <2>2, <2>3, <2>4, <2>5, <2>7
<1>6. Undoes(r, {"buf"})
  BY <1>1 DEF Undoes, GivesBack, GoesBack, GivenBack, Resource, Ways, Leds, Range
<1> QED
  BY <1>3, <1>4, <1>5, <1>6 DEF Orderly, r

LEMMA As771232xSfpOrderly == Orderly(as7712_32x_sfp, {"port"}, TRUE)
<1> DEFINE r == as7712_32x_sfp
<1>1. /\ r.init = <<"drv">> /\ r.exit = <<"drv">>
      /\ r.initFails = [drv |-> <<>>]
      /\ r.uses = {"data", "ready", "port"}
      /\ r.probe = <<"port", "data", "files", "bin", "ready">>
      /\ r.remove = <<"bin", "files", "data">>
      /\ r.probeFails = [port |-> <<>>, data |-> <<>>, files |-> <<"data">>, bin |-> <<"files", "data">>]
  BY WithIs DEF as7712_32x_sfp, I2c
<1> HIDE DEF r
<1>2. DOMAIN r.probe = 1..5
  BY <1>1
<1>3. InOrder(r, {"port"}, TRUE)
  BY <1>1 DEF InOrder, Resource, Ways, Leds, Range
<1>4. UndoesInit(r, {"port"})
  BY <1>1, I2cUndoes
<1>5. UndoesProbe(r, {"port"})
  <2> SUFFICES ASSUME NEW j \in 1..5, r.probe[j] \notin Settings \cup {"client"}
               PROVE  GivesBack(r.probeFails[r.probe[j]], {r.probe[i] : i \in 1..(j - 1)}, r.uses, {"port"})
    BY <1>2 DEF UndoesProbe
  <2>1. CASE j = 1
    BY <1>1, <2>1, NothingToUndo
  <2>2. CASE j = 2
    <3>1. /\ r.probeFails[r.probe[j]] = <<>>
          /\ {r.probe[i] : i \in 1..(j - 1)} = {"port"}
      BY <1>1, <2>2
    <3>2. GivesBack(<<>>, {"port"}, r.uses, {"port"})
      BY <1>1 DEF GivesBack, GoesBack, GivenBack, Resource, Ways, Leds, Range
    <3> QED
      BY <3>1, <3>2
  <2>3. CASE j = 3
    <3>1. /\ r.probeFails[r.probe[j]] = <<"data">>
          /\ {r.probe[i] : i \in 1..(j - 1)} = {"port", "data"}
      BY <1>1, <2>3
    <3>2. GivesBack(<<"data">>, {"port", "data"}, r.uses, {"port"})
      BY <1>1 DEF GivesBack, GoesBack, GivenBack, Resource, Ways, Leds, Range
    <3> QED
      BY <3>1, <3>2
  <2>4. CASE j = 4
    <3>1. /\ r.probeFails[r.probe[j]] = <<"files", "data">>
          /\ {r.probe[i] : i \in 1..(j - 1)} = {"port", "data", "files"}
      BY <1>1, <2>4
    <3>2. GivesBack(<<"files", "data">>, {"port", "data", "files"}, r.uses, {"port"})
      BY <1>1 DEF GivesBack, GoesBack, GivenBack, Resource, Ways, Leds, Range
    <3> QED
      BY <3>1, <3>2
  <2>5. j # 5
    <3>1. r.probe[5] = "ready"
      BY <1>1
    <3> QED
      BY <3>1 DEF Settings
  <2>6. j \in {1, 2, 3, 4}
    BY <2>5
  <2> QED
    BY <2>1, <2>2, <2>3, <2>4, <2>6
<1>6. Undoes(r, {"port"})
  BY <1>1 DEF Undoes, GivesBack, GoesBack, GivenBack, Resource, Ways, Leds, Range
<1> QED
  BY <1>3, <1>4, <1>5, <1>6 DEF Orderly, r

LEMMA OptoeOrderly == Orderly(optoe, {"bin"}, TRUE)
<1> DEFINE r == optoe
<1>1. /\ r.init = <<"drv">> /\ r.exit = <<"drv">>
      /\ r.initFails = [drv |-> <<>>]
      /\ r.uses = {"data", "ready", "buf", "dummy"}
      /\ r.probe = <<"data", "buf", "dummy", "bin", "files", "ready">>
      /\ r.remove = <<"files", "bin", "dummy", "buf", "data">>
      /\ r.probeFails = [data |-> <<>>, buf |-> <<"data">>, dummy |-> <<"buf", "data">>, bin |-> <<"dummy", "buf", "data">>, files |-> <<"dummy", "buf", "data">>]
  BY WithIs DEF optoe, I2c
<1> HIDE DEF r
<1>2. DOMAIN r.probe = 1..6
  BY <1>1
<1>3. InOrder(r, {"bin"}, TRUE)
  BY <1>1 DEF InOrder, Resource, Ways, Leds, Range
<1>4. UndoesInit(r, {"bin"})
  BY <1>1, I2cUndoes
<1>5. UndoesProbe(r, {"bin"})
  <2> SUFFICES ASSUME NEW j \in 1..6, r.probe[j] \notin Settings \cup {"client"}
               PROVE  GivesBack(r.probeFails[r.probe[j]], {r.probe[i] : i \in 1..(j - 1)}, r.uses, {"bin"})
    BY <1>2 DEF UndoesProbe
  <2>1. CASE j = 1
    BY <1>1, <2>1, NothingToUndo
  <2>2. CASE j = 2
    <3>1. /\ r.probeFails[r.probe[j]] = <<"data">>
          /\ {r.probe[i] : i \in 1..(j - 1)} = {"data"}
      BY <1>1, <2>2
    <3>2. GivesBack(<<"data">>, {"data"}, r.uses, {"bin"})
      BY <1>1 DEF GivesBack, GoesBack, GivenBack, Resource, Ways, Leds, Range
    <3> QED
      BY <3>1, <3>2
  <2>3. CASE j = 3
    <3>1. /\ r.probeFails[r.probe[j]] = <<"buf", "data">>
          /\ {r.probe[i] : i \in 1..(j - 1)} = {"data", "buf"}
      BY <1>1, <2>3
    <3>2. GivesBack(<<"buf", "data">>, {"data", "buf"}, r.uses, {"bin"})
      BY <1>1 DEF GivesBack, GoesBack, GivenBack, Resource, Ways, Leds, Range
    <3> QED
      BY <3>1, <3>2
  <2>4. CASE j = 4
    <3>1. /\ r.probeFails[r.probe[j]] = <<"dummy", "buf", "data">>
          /\ {r.probe[i] : i \in 1..(j - 1)} = {"data", "buf", "dummy"}
      BY <1>1, <2>4
    <3>2. GivesBack(<<"dummy", "buf", "data">>, {"data", "buf", "dummy"}, r.uses, {"bin"})
      BY <1>1 DEF GivesBack, GoesBack, GivenBack, Resource, Ways, Leds, Range
    <3> QED
      BY <3>1, <3>2
  <2>5. CASE j = 5
    <3>1. /\ r.probeFails[r.probe[j]] = <<"dummy", "buf", "data">>
          /\ {r.probe[i] : i \in 1..(j - 1)} = {"data", "buf", "dummy", "bin"}
      BY <1>1, <2>5
    <3>2. GivesBack(<<"dummy", "buf", "data">>, {"data", "buf", "dummy", "bin"}, r.uses, {"bin"})
      BY <1>1 DEF GivesBack, GoesBack, GivenBack, Resource, Ways, Leds, Range
    <3> QED
      BY <3>1, <3>2
  <2>7. j # 6
    <3>1. r.probe[6] = "ready"
      BY <1>1
    <3> QED
      BY <3>1 DEF Settings
  <2> QED
    BY <2>1, <2>2, <2>3, <2>4, <2>5, <2>7
<1>6. Undoes(r, {"bin"})
  BY <1>1 DEF Undoes, GivesBack, GoesBack, GivenBack, Resource, Ways, Leds, Range
<1> QED
  BY <1>3, <1>4, <1>5, <1>6 DEF Orderly, r

LEMMA PlatformHwmonOrderly == Orderly(PlatformHwmon, {}, FALSE)
<1> DEFINE r == PlatformHwmon
<1>1. /\ r.init = <<"drv", "data", "ready", "pdev">> /\ r.exit = <<"pdev", "drv", "data">>
      /\ r.initFails = [drv |-> <<>>, data |-> <<"drv">>, pdev |-> <<"drv", "data">>]
      /\ r.uses = {"data", "ready"}
      /\ r.probe = <<"files", "hwmon">>
      /\ r.remove = <<"hwmon", "files">>
      /\ r.probeFails = [files |-> <<>>, hwmon |-> <<"files">>]
  BY WithIs DEF PlatformHwmon, Platform
<1> HIDE DEF r
<1>2. DOMAIN r.probe = 1..2
  BY <1>1
<1>3. InOrder(r, {}, FALSE)
  BY <1>1 DEF InOrder, Resource, Ways, Leds, Range
<1>4. UndoesInit(r, {})
  BY <1>1, PlatformUndoes
<1>5. UndoesProbe(r, {})
  <2> SUFFICES ASSUME NEW j \in 1..2, r.probe[j] \notin Settings \cup {"client"}
               PROVE  GivesBack(r.probeFails[r.probe[j]], {r.probe[i] : i \in 1..(j - 1)}, r.uses, {})
    BY <1>2 DEF UndoesProbe
  <2>1. CASE j = 1
    BY <1>1, <2>1, NothingToUndo
  <2>2. CASE j = 2
    <3>1. /\ r.probeFails[r.probe[j]] = <<"files">>
          /\ {r.probe[i] : i \in 1..(j - 1)} = {"files"}
      BY <1>1, <2>2
    <3>2. GivesBack(<<"files">>, {"files"}, r.uses, {})
      BY <1>1 DEF GivesBack, GoesBack, GivenBack, Resource, Ways, Leds, Range
    <3> QED
      BY <3>1, <3>2
  <2> QED
    BY <2>1, <2>2
<1>6. Undoes(r, {})
  BY <1>1 DEF Undoes, GivesBack, GoesBack, GivenBack, Resource, Ways, Leds, Range
<1> QED
  BY <1>3, <1>4, <1>5, <1>6 DEF Orderly, r

LEMMA PlatformLedsOrderly == Orderly(PlatformLeds, {}, FALSE)
<1> DEFINE r == PlatformLeds
<1>1. /\ r.init = <<"drv", "data", "ready", "pdev">> /\ r.exit = <<"pdev", "drv", "data">>
      /\ r.initFails = [drv |-> <<>>, data |-> <<"drv">>, pdev |-> <<"drv", "data">>]
      /\ r.uses = {"data", "ready"}
      /\ r.probe = <<"led1", "led2">>
      /\ r.remove = <<"led1", "led2">>
      /\ r.probeFails = [led1 |-> <<>>, led2 |-> <<"led2">>]
  BY WithIs DEF PlatformLeds, Platform
<1> HIDE DEF r
<1>2. DOMAIN r.probe = 1..2
  BY <1>1
<1>3. InOrder(r, {}, FALSE)
  BY <1>1 DEF InOrder, Resource, Ways, Leds, Range
<1>4. UndoesInit(r, {})
  BY <1>1, PlatformUndoes
<1>5. UndoesProbe(r, {})
  BY <1>1, <1>2 DEF UndoesProbe, Leds
<1>6. Undoes(r, {})
  BY <1>1 DEF Undoes, GivesBack, GoesBack, GivenBack, Resource, Ways, Leds, Range
<1> QED
  BY <1>3, <1>4, <1>5, <1>6 DEF Orderly, r

LEMMA AcctonWedge100bfOrderly == Orderly(accton_wedge100bf, {"part"}, FALSE)
<1> DEFINE r == accton_wedge100bf
<1>1. /\ r.init = <<"drv", "data", "ready", "pdev">> /\ r.exit = <<"pdev", "drv", "data">>
      /\ r.initFails = [drv |-> <<>>, data |-> <<"drv">>, pdev |-> <<"drv", "data">>]
      /\ r.uses = {"data", "ready", "attrs"}
      /\ r.probe = <<"attrs", "files", "hwmon">>
      /\ r.remove = <<"hwmon", "files", "attrs">>
      /\ r.probeFails = [attrs |-> <<>>, files |-> <<"attrs">>, hwmon |-> <<"files", "attrs">>]
  BY WithIs DEF accton_wedge100bf, Platform
<1> HIDE DEF r
<1>2. DOMAIN r.probe = 1..3
  BY <1>1
<1>3. InOrder(r, {"part"}, FALSE)
  BY <1>1 DEF InOrder, Resource, Ways, Leds, Range
<1>4. UndoesInit(r, {"part"})
  BY <1>1, PlatformUndoes
<1>5. UndoesProbe(r, {"part"})
  <2> SUFFICES ASSUME NEW j \in 1..3, r.probe[j] \notin Settings \cup {"client"}
               PROVE  GivesBack(r.probeFails[r.probe[j]], {r.probe[i] : i \in 1..(j - 1)}, r.uses, {"part"})
    BY <1>2 DEF UndoesProbe
  <2>1. CASE j = 1
    BY <1>1, <2>1, NothingToUndo
  <2>2. CASE j = 2
    <3>1. /\ r.probeFails[r.probe[j]] = <<"attrs">>
          /\ {r.probe[i] : i \in 1..(j - 1)} = {"attrs"}
      BY <1>1, <2>2
    <3>2. GivesBack(<<"attrs">>, {"attrs"}, r.uses, {"part"})
      BY <1>1 DEF GivesBack, GoesBack, GivenBack, Resource, Ways, Leds, Range
    <3> QED
      BY <3>1, <3>2
  <2>3. CASE j = 3
    <3>1. /\ r.probeFails[r.probe[j]] = <<"files", "attrs">>
          /\ {r.probe[i] : i \in 1..(j - 1)} = {"attrs", "files"}
      BY <1>1, <2>3
    <3>2. GivesBack(<<"files", "attrs">>, {"attrs", "files"}, r.uses, {"part"})
      BY <1>1 DEF GivesBack, GoesBack, GivenBack, Resource, Ways, Leds, Range
    <3> QED
      BY <3>1, <3>2
  <2> QED
    BY <2>1, <2>2, <2>3
<1>6. Undoes(r, {"part"})
  BY <1>1 DEF Undoes, GivesBack, GoesBack, GivenBack, Resource, Ways, Leds, Range
<1> QED
  BY <1>3, <1>4, <1>5, <1>6 DEF Orderly, r

\* What stays behind a driver, and the drivers whose files come first, are as
\* its steps say.
LEMMA DriversOrderly ==
  ASSUME NEW d \in DOMAIN Driver
  PROVE  Orderly(Driver[d], StaysBehind(d), d \in ReadyLate)
<1>1. CASE d \in {"accton_as5712_54x_fan", "accton_as5812_54t_fan",
                  "accton_as6712_32x_fan"}
  <2>1. Driver[d] = PlatformHwmon /\ StaysBehind(d) = {} /\ (d \in ReadyLate) = FALSE
    BY <1>1 DEF Driver, StaysBehind, ReadyLate, accton_as5712_54x_fan, accton_as5812_54t_fan, accton_as6712_32x_fan
  <2> QED
    BY <2>1, PlatformHwmonOrderly
<1>2. CASE d \in {"as7312_54x_fan", "as7326_56x_fan", "as7712_32x_fan",
                  "as7716_32x_fan", "as7716_32xb_fan", "as7726_32x_fan",
                  "as7816_64x_fan"}
  <2>1. Driver[d] = FanOfDevice /\ StaysBehind(d) = {"data", "ready"} /\ (d \in ReadyLate) = FALSE
    BY <1>2 DEF Driver, StaysBehind, ReadyLate, as7312_54x_fan, as7326_56x_fan, as7712_32x_fan, as7716_32x_fan, as7716_32xb_fan, as7726_32x_fan, as7816_64x_fan
  <2> QED
    BY <2>1, FanOfDeviceOrderly
<1>3. CASE d \in {"as5712_54x_psu", "as5812_54t_psu", "as6712_32x_psu",
                  "as7312_54x_psu", "as7326_56x_psu", "as7712_32x_psu",
                  "as7716_32x_psu", "as7716_32xb_psu", "as7726_32x_psu",
                  "as7816_64x_psu", "as5712_54x_ym2651y", "as5812_54t_ym2651y",
                  "as7716_32x_ym2651y", "as7726_32x_ym2651y", "common_ym2651y",
                  "as5712_54x_cpr_4011_4mxx", "as7716_32x_cpr_4011_4mxx",
                  "common_cpr_4011_4mxx", "as7716_32xb_thermal", "as7716_32xb_oom",
                  "as7716_32xb_pmbus", "as7716_32xb_sys", "as5812_54t_sfp"}
  <2>1. Driver[d] = Hwmon /\ StaysBehind(d) = {} /\ (d \in ReadyLate) = FALSE
    BY <1>3 DEF Driver, StaysBehind, ReadyLate, as5712_54x_psu, as5812_54t_psu, as6712_32x_psu, as7312_54x_psu, as7326_56x_psu, as7712_32x_psu, as7716_32x_psu, as7716_32xb_psu, as7726_32x_psu, as7816_64x_psu, as5712_54x_ym2651y, as5812_54t_ym2651y, as7716_32x_ym2651y, as7726_32x_ym2651y, common_ym2651y, as5712_54x_cpr_4011_4mxx, as7716_32x_cpr_4011_4mxx, common_cpr_4011_4mxx, as7716_32xb_thermal, as7716_32xb_oom, as7716_32xb_pmbus, as7716_32xb_sys, as5812_54t_sfp
  <2> QED
    BY <2>1, HwmonOrderly
<1>4. CASE d \in {"accton_pmbus_3y"}
  <2>1. Driver[d] = accton_pmbus_3y /\ StaysBehind(d) = {} /\ (d \in ReadyLate) = FALSE
    BY <1>4 DEF Driver, StaysBehind, ReadyLate
  <2> QED
    BY <2>1, AcctonPmbus3yOrderly
<1>5. CASE d \in {"as7312_54x_cpld", "as7326_56x_cpld", "as7726_32x_cpld"}
  <2>1. Driver[d] = Cpld /\ StaysBehind(d) = {} /\ (d \in ReadyLate) = FALSE
    BY <1>5 DEF Driver, StaysBehind, ReadyLate, as7312_54x_cpld, as7326_56x_cpld, as7726_32x_cpld
  <2> QED
    BY <2>1, CpldOrderly
<1>6. CASE d \in {"as7716_32x_cpld", "as7716_32xb_cpld"}
  <2>1. Driver[d] = HwmonClient /\ StaysBehind(d) = {} /\ (d \in ReadyLate) = FALSE
    BY <1>6 DEF Driver, StaysBehind, ReadyLate, as7716_32x_cpld, as7716_32xb_cpld
  <2> QED
    BY <2>1, HwmonClientOrderly
<1>7. CASE d \in {"as5812_54t_accton_i2c_cpld", "as7716_32x_accton_i2c_cpld"}
  <2>1. Driver[d] = as5812_54t_accton_i2c_cpld /\ StaysBehind(d) = {} /\ (d \in ReadyLate) = FALSE
    BY <1>7 DEF Driver, StaysBehind, ReadyLate, as7716_32x_accton_i2c_cpld
  <2> QED
    BY <2>1, As581254tAcctonI2cCpldOrderly
<1>8. CASE d \in {"common_accton_i2c_cpld"}
  <2>1. Driver[d] = common_accton_i2c_cpld /\ StaysBehind(d) = {} /\ (d \in ReadyLate) = FALSE
    BY <1>8 DEF Driver, StaysBehind, ReadyLate
  <2> QED
    BY <2>1, CommonAcctonI2cCpldOrderly
<1>9. CASE d \in {"as5712_54x_cpld_mux", "as6712_32x_cpld_mux"}
  <2>1. Driver[d] = CpldMux /\ StaysBehind(d) = {} /\ (d \in ReadyLate) = FALSE
    BY <1>9 DEF Driver, StaysBehind, ReadyLate, as5712_54x_cpld_mux, as6712_32x_cpld_mux
  <2> QED
    BY <2>1, CpldMuxOrderly
<1>10. CASE d \in {"as7816_64x_sfp"}
  <2>1. Driver[d] = as7816_64x_sfp /\ StaysBehind(d) = {"buf"} /\ (d \in ReadyLate) = TRUE
    BY <1>10 DEF Driver, StaysBehind, ReadyLate
  <2> QED
    BY <2>1, As781664xSfpOrderly
<1>11. CASE d \in {"as7712_32x_sfp"}
  <2>1. Driver[d] = as7712_32x_sfp /\ StaysBehind(d) = {"port"} /\ (d \in ReadyLate) = TRUE
    BY <1>11 DEF Driver, StaysBehind, ReadyLate
  <2> QED
    BY <2>1, As771232xSfpOrderly
<1>12. CASE d \in {"optoe"}
  <2>1. Driver[d] = optoe /\ StaysBehind(d) = {"bin"} /\ (d \in ReadyLate) = TRUE
    BY <1>12 DEF Driver, StaysBehind, ReadyLate
  <2> QED
    BY <2>1, OptoeOrderly
<1>13. CASE d \in {"accton_as5712_54x_led", "accton_as5812_54t_led",
                  "accton_as6712_32x_led", "accton_as7312_54x_led",
                  "accton_as7326_56x_led", "accton_as7712_32x_led", "as7716_32x_led",
                  "as7716_32xb_led", "accton_as7726_32x_led", "as7816_64x_led"}
  <2>1. Driver[d] = PlatformLeds /\ StaysBehind(d) = {} /\ (d \in ReadyLate) = FALSE
    BY <1>13 DEF Driver, StaysBehind, ReadyLate, accton_as5712_54x_led, accton_as5812_54t_led, accton_as6712_32x_led, accton_as7312_54x_led, accton_as7326_56x_led, accton_as7712_32x_led, as7716_32x_led, as7716_32xb_led, accton_as7726_32x_led, as7816_64x_led
  <2> QED
    BY <2>1, PlatformLedsOrderly
<1>14. CASE d \in {"accton_wedge100bf"}
  <2>1. Driver[d] = accton_wedge100bf /\ StaysBehind(d) = {"part"} /\ (d \in ReadyLate) = FALSE
    BY <1>14 DEF Driver, StaysBehind, ReadyLate
  <2> QED
    BY <2>1, AcctonWedge100bfOrderly
<1> QED
  BY <1>1, <1>2, <1>3, <1>4, <1>5, <1>6, <1>7, <1>8, <1>9, <1>10, <1>11, <1>12, <1>13, <1>14 DEF Driver

-----------------------------------------------------------------------------
(* Steps.                                                                    *)

\* A program is begun.
LEMMA Begun ==
  ASSUME NEW program \in Seq(Resource)
  PROVE  IsRestOf(program, program) /\ Done(program, program) = {}
BY DEF IsRestOf, Done

\* A program is through.
LEMMA Through ==
  ASSUME NEW program \in Seq(Resource)
  PROVE  Done(<<>>, program) = Range(program)
BY DEF Done, Range

\* The next step of a program.
LEMMA NextStep ==
  ASSUME NEW program \in Seq(Resource), NEW steps, IsRestOf(steps, program), steps # <<>>
  PROVE  \E j \in DOMAIN program :
           /\ Head(steps) = program[j]
           /\ Done(steps, program) = {program[i] : i \in 1..(j - 1)}
           /\ IsRestOf(Tail(steps), program)
           /\ Done(Tail(steps), program) = Done(steps, program) \cup {program[j]}
<1> DEFINE j == Len(program) - Len(steps) + 1
<1>1. /\ steps \in Seq(Resource) /\ Len(steps) \in Nat /\ Len(program) \in Nat
      /\ Len(steps) <= Len(program) /\ Len(steps) > 0
  BY DEF IsRestOf
<1>2. j \in DOMAIN program /\ Head(steps) = program[j]
  BY <1>1 DEF IsRestOf
<1>3. Done(steps, program) = {program[i] : i \in 1..(j - 1)}
  BY <1>1 DEF Done
<1>4. Tail(steps) \in Seq(Resource) /\ Len(Tail(steps)) = Len(steps) - 1
  BY <1>1
<1>5. IsRestOf(Tail(steps), program)
  <2>1. ASSUME NEW i \in DOMAIN Tail(steps)
        PROVE  Tail(steps)[i] = program[Len(program) - Len(Tail(steps)) + i]
    <3>1. Tail(steps)[i] = steps[i + 1] /\ i + 1 \in DOMAIN steps
      BY <1>1, <1>4
    <3> QED
      BY <1>1, <1>4, <3>1 DEF IsRestOf
  <2> QED
    BY <1>1, <1>4, <2>1 DEF IsRestOf
<1>6. Done(Tail(steps), program) = Done(steps, program) \cup {program[j]}
  <2>1. Done(Tail(steps), program) = {program[i] : i \in 1..j}
    BY <1>1, <1>4 DEF Done
  <2>2. 1..j = 1..(j - 1) \cup {j}
    BY <1>1
  <2> HIDE DEF j
  <2> QED
    BY <1>3, <2>1, <2>2
<1> HIDE DEF j
<1> QED
  BY <1>2, <1>3, <1>5, <1>6

\* The next thing that is given back.
LEMMA NextBack ==
  ASSUME NEW steps, NEW uses, NEW behind, GoesBack(steps, uses, behind), steps # <<>>
  PROVE  /\ GoesBack(Tail(steps), uses, behind)
         /\ Range(steps) = {Head(steps)} \cup Range(Tail(steps))
         /\ Head(steps) \notin Range(Tail(steps))
         /\ Head(steps) \in Resource
         /\ Head(steps) \in uses \cup {"data"} =>
              Range(Tail(steps)) \cap Ways \subseteq {"client"} \cup behind
<1>1. /\ steps \in Seq(Resource) /\ Len(steps) \in Nat /\ Len(steps) > 0
      /\ Head(steps) = steps[1] /\ 1 \in DOMAIN steps
  BY DEF GoesBack
<1>2. Tail(steps) \in Seq(Resource) /\ Len(Tail(steps)) = Len(steps) - 1
  BY <1>1
<1>3. \A i \in DOMAIN Tail(steps) : i + 1 \in DOMAIN steps /\ Tail(steps)[i] = steps[i + 1] /\ i + 1 > 1
  BY <1>1, <1>2
<1>4. \A i \in DOMAIN steps : i = 1 \/ (i - 1 \in DOMAIN Tail(steps) /\ Tail(steps)[i - 1] = steps[i])
  BY <1>1, <1>2
<1>5. Range(steps) = {Head(steps)} \cup Range(Tail(steps))
  <2>1. ASSUME NEW i \in DOMAIN steps
        PROVE  steps[i] \in {Head(steps)} \cup Range(Tail(steps))
    BY <1>1, <1>4 DEF Range
  <2>2. Head(steps) \in Range(steps) /\ Range(Tail(steps)) \subseteq Range(steps)
    BY <1>1, <1>3 DEF Range
  <2> QED
    BY <2>1, <2>2 DEF Range
<1>6. \A i \in DOMAIN Tail(steps) : i \in Int
  BY <1>2
<1>7. GoesBack(Tail(steps), uses, behind)
  <2>1. \A i, j \in DOMAIN Tail(steps) : Tail(steps)[i] = Tail(steps)[j] => i = j
    BY <1>3, <1>6 DEF GoesBack
  <2>2. ASSUME NEW i \in DOMAIN Tail(steps), NEW k \in DOMAIN Tail(steps),
               i < k, Tail(steps)[i] \in uses \cup {"data"}
        PROVE  Tail(steps)[k] \notin Ways \ ({"client"} \cup behind)
    <3>1. i + 1 < k + 1
      BY <1>6, <2>2
    <3> QED
      BY <1>3, <2>2, <3>1 DEF GoesBack
  <2> QED
    BY <1>2, <1>5, <2>1, <2>2 DEF GoesBack
<1>8. Head(steps) \notin Range(Tail(steps))
  <2> SUFFICES ASSUME NEW i \in DOMAIN Tail(steps)
               PROVE  Tail(steps)[i] # steps[1]
    BY <1>1 DEF Range
  <2> QED
    BY <1>1, <1>3, <1>6 DEF GoesBack
<1>9. ASSUME Head(steps) \in uses \cup {"data"}, NEW way \in Range(Tail(steps)) \cap Ways
      PROVE  way \in {"client"} \cup behind
  <2>1. PICK i \in DOMAIN Tail(steps) : way = steps[i + 1] /\ i + 1 \in DOMAIN steps /\ 1 < i + 1
    BY <1>3, <1>6, <1>9 DEF Range
  <2> QED
    BY <1>1, <1>9, <2>1 DEF GoesBack
<1> QED
  BY <1>1, <1>5, <1>7, <1>8, <1>9

\* Two programs that go back, one after the other.
LEMMA BothBack ==
  ASSUME NEW first, NEW second, NEW uses, NEW behind,
         GoesBack(first, uses, behind), GoesBack(second, uses, behind),
         Range(first) \cap Range(second) = {}, Range(second) \cap Ways = {}
  PROVE  /\ GoesBack(first \o second, uses, behind)
         /\ Range(first \o second) = Range(first) \cup Range(second)
<1> DEFINE both == first \o second
           n == Len(first)
<1>1. /\ first \in Seq(Resource) /\ second \in Seq(Resource) /\ both \in Seq(Resource)
      /\ n \in Nat /\ Len(second) \in Nat /\ Len(both) = n + Len(second)
  BY DEF GoesBack
<1>2. \A i \in DOMAIN both :
        /\ i \in Int
        /\ i <= n => i \in DOMAIN first /\ both[i] = first[i] /\ first[i] \in Range(first)
        /\ i > n => i - n \in DOMAIN second /\ both[i] = second[i - n] /\ second[i - n] \in Range(second)
  BY <1>1 DEF Range
<1>3. /\ \A i \in DOMAIN first : i \in DOMAIN both /\ both[i] = first[i]
      /\ \A i \in DOMAIN second : n + i \in DOMAIN both /\ both[n + i] = second[i]
  BY <1>1
<1>4. Range(both) = Range(first) \cup Range(second)
  <2>1. Range(both) \subseteq Range(first) \cup Range(second)
    BY <1>1, <1>2 DEF Range
  <2>2. Range(first) \subseteq Range(both) /\ Range(second) \subseteq Range(both)
    BY <1>3 DEF Range
  <2> QED
    BY <2>1, <2>2
<1> HIDE DEF both
<1>5. ASSUME NEW i \in DOMAIN both, NEW j \in DOMAIN both, both[i] = both[j]
      PROVE  i = j
  <2>1. (i <= n /\ j <= n) \/ (i > n /\ j > n)
    BY <1>1, <1>2, <1>5
  <2>2. CASE i <= n /\ j <= n
    BY <1>2, <1>5, <2>2 DEF GoesBack
  <2>3. CASE i > n /\ j > n
    <3>1. i - n = j - n
      BY <1>2, <1>5, <2>3 DEF GoesBack
    <3> QED
      BY <1>1, <1>2, <3>1
  <2> QED
    BY <2>1, <2>2, <2>3
<1>6. ASSUME NEW i \in DOMAIN both, NEW j \in DOMAIN both, i < j, both[i] \in uses \cup {"data"}
      PROVE  both[j] \notin Ways \ ({"client"} \cup behind)
  <2>1. CASE j <= n
    <3>1. i <= n
      BY <1>1, <1>2, <1>6, <2>1
    <3> QED
      BY <1>2, <1>6, <2>1, <3>1 DEF GoesBack
  <2>2. CASE j > n
    BY <1>2, <2>2
  <2> QED
    BY <1>1, <1>2, <2>1, <2>2
<1> QED
  BY <1>1, <1>4, <1>5, <1>6 DEF GoesBack, both

-----------------------------------------------------------------------------
(* The inductive invariant.                                                  *)

\* What the table says of the driver at hand.
LEMMA OfDriver ==
  ASSUME drv \in Drivers
  PROVE  /\ Orderly(D, StaysBehind(drv), drv \in ReadyLate)
         /\ D.init \in Seq(Resource) /\ D.probe \in Seq(Resource)
         /\ "client" \notin Range(D.init) /\ "client" \notin D.uses
         /\ SaysAllIsWell => IsPlatform
<1>1. drv \in DOMAIN Driver
  BY DriversAssumption
<1>2. Orderly(D, StaysBehind(drv), drv \in ReadyLate)
  BY <1>1, DriversOrderly DEF D
<1>3. SaysAllIsWell => IsPlatform
  <2>1. ASSUME SaysAllIsWell
        PROVE  D.init = <<"drv", "data", "ready", "pdev">>
    BY <2>1, WithIs DEF SaysAllIsWell, D, Driver, as7716_32x_led, as7716_32xb_led, PlatformLeds, Platform
  <2> QED
    BY <2>1 DEF IsPlatform
<1> QED
  BY <1>2, <1>3 DEF Orderly, InOrder, Ways

LEMMA InitIInv == Init => IInv
<1> SUFFICES ASSUME Init PROVE IInv
  OBVIOUS
<1>1. TypeOK
  BY <<>> \in Seq(Resource) DEF Init, TypeOK
<1>2. PhaseInv /\ HeldInv /\ WaysInv
  BY DEF Init, PhaseInv, HeldInv, WaysInv, MayHold, MustHold, GoingBack
<1> QED
  BY <1>1, <1>2 DEF IInv

\* The table does not change.
LEMMA SameDriver ==
  ASSUME drv' = drv
  PROVE  /\ D' = D /\ StaysBehind(drv)' = StaysBehind(drv) /\ SaysAllIsWell' = SaysAllIsWell
         /\ \A way : UsedFrom(way)' = UsedFrom(way)
<1>1. D' = D
  BY DEF D
<1> QED
  BY <1>1 DEF SaysAllIsWell, UsedFrom

LEMMA LoadIInv == IInv /\ Load => IInv'
<1> SUFFICES ASSUME IInv, Load PROVE IInv'
  OBVIOUS
<1> USE SameDriver, OfDriver
<1>1. /\ drv \in Drivers /\ drv' = drv /\ doing' = "init" /\ left' = D.init
      /\ held' = held /\ ~loaded /\ ~bound /\ loaded' = loaded /\ bound' = bound /\ inside' = inside
      /\ doing = "rest"
  BY DEF Load, Begin, IInv, TypeOK, PhaseInv
<1>2. TypeOK'
  BY <1>1 DEF IInv, TypeOK
<1>3. PhaseInv'
  BY <1>1, Begun DEF PhaseInv, GoingBack
<1>4. HeldInv'
  BY <1>1, Begun DEF IInv, HeldInv, MayHold, MustHold
<1>5. WaysInv'
  BY <1>1 DEF IInv, WaysInv
<1> QED
  BY <1>2, <1>3, <1>4, <1>5 DEF IInv

LEMMA NewDeviceIInv == IInv /\ NewDevice => IInv'
<1> SUFFICES ASSUME IInv, NewDevice PROVE IInv'
  OBVIOUS
<1> USE SameDriver, OfDriver
<1>1. /\ drv \in Drivers /\ drv' = drv /\ doing = "rest" /\ doing' = "probe" /\ left' = D.probe
      /\ held' = held /\ loaded /\ ~bound /\ loaded' = loaded /\ bound' = bound /\ inside' = inside
      /\ ~SaysAllIsWell
  BY DEF NewDevice, Begin, IInv, TypeOK
<1>2. TypeOK'
  BY <1>1 DEF IInv, TypeOK
<1>3. PhaseInv'
  BY <1>1, Begun DEF PhaseInv, GoingBack
<1>4. HeldInv'
  BY <1>1, Begun DEF IInv, HeldInv, MayHold, MustHold
<1>5. WaysInv'
  BY <1>1 DEF IInv, WaysInv
<1> QED
  BY <1>2, <1>3, <1>4, <1>5 DEF IInv

LEMMA AcquireIInv == IInv /\ Acquire => IInv'
<1> SUFFICES ASSUME IInv, Acquire PROVE IInv'
  OBVIOUS
<1> USE SameDriver, OfDriver
<1> DEFINE h == Head(left)
           program == IF doing = "init" THEN D.init ELSE D.probe
<1>1. /\ drv \in Drivers /\ drv' = drv /\ doing' = doing /\ left' = Tail(left) /\ left # <<>>
      /\ loaded' = loaded /\ bound' = bound /\ inside' = inside /\ doing \in {"init", "probe"}
      /\ held' = (IF h = "data" THEN held \ {"ready"} ELSE held) \cup {h}
  BY DEF Acquire, IInv, TypeOK
<1>2. program \in Seq(Resource) /\ IsRestOf(left, program)
  BY <1>1 DEF IInv, PhaseInv
<1>3. PICK j \in DOMAIN program :
        /\ h = program[j] /\ Done(left, program) = {program[i] : i \in 1..(j - 1)}
        /\ IsRestOf(left', program) /\ Done(left', program) = Done(left, program) \cup {h}
  <2> HIDE DEF program
  <2> QED
    BY <1>1, <1>2, NextStep
<1>4. TypeOK'
  <2>1. h \in Resource /\ left' \in Seq(Resource)
    BY <1>2, <1>3 DEF IsRestOf
  <2> QED
    BY <1>1, <2>1 DEF IInv, TypeOK
<1>5. PhaseInv'
  BY <1>1, <1>3 DEF IInv, PhaseInv, GoingBack
\* What is there of before.
<1>6. /\ held \subseteq StaysBehind(drv) \cup (Range(D.init) \cup Done(left, program))
      /\ doing = "init" => held \subseteq StaysBehind(drv) \cup Done(left, program)
      /\ Done(left, program) \subseteq held \cup {"client"}
      /\ doing = "probe" => Range(D.init) \subseteq held
  BY <1>1 DEF IInv, HeldInv, MayHold, MustHold
<1>7. h = "data" =>
        /\ "ready" \notin Done(left, program)
        /\ doing = "probe" => "ready" \notin Range(D.init)
        /\ (Range(D.init) \cup Done(left, program)) \cap Ways = {}
  <2>1. CASE doing = "init"
    <3>1. Done(left, program) \subseteq Range(D.init)
      BY <1>2, <1>3, <2>1 DEF Range
    <3> QED
      BY <1>1, <1>3, <2>1, <3>1 DEF Orderly, InOrder
  <2>2. CASE doing = "probe"
    <3>1. h = "data" =>
            /\ "ready" \notin Range(D.init) /\ Range(D.init) \cap Ways = {}
            /\ \A i \in 1..(j - 1) : D.probe[i] \notin Ways \cup {"ready"}
      BY <1>1, <1>3, <2>2 DEF Orderly, InOrder
    <3>2. Done(left, program) = {D.probe[i] : i \in 1..(j - 1)}
      BY <1>3, <2>2
    <3> QED
      BY <3>1, <3>2
  <2> QED
    BY <1>1, <2>1, <2>2
<1>8. HeldInv'
  <2>1. held' \subseteq held \cup {h} /\ held \subseteq held' \cup {"ready"}
        /\ (h # "data" => held \subseteq held') /\ h \in held'
    BY <1>1
  <2>2. MayHold' = (IF doing = "probe" THEN Range(D.init) ELSE {}) \cup Done(left, program) \cup {h}
        /\ MustHold' = MayHold'
    BY <1>1, <1>3 DEF MayHold, MustHold
  <2> QED
    BY <1>1, <1>6, <1>7, <2>1, <2>2 DEF HeldInv
<1>9. WaysInv'
  <2>1. \A p \in Process : inside[p] # Nowhere => inside[p] \in held'
    BY <1>1 DEF IInv, WaysInv, TypeOK, Ways, Leds
  <2>2. ASSUME NEW way \in (held' \cap Ways) \ StaysBehind(drv)
        PROVE  UsedFrom(way) \subseteq held'
    <3>1. CASE way \in held /\ h = "data"
      BY <1>6, <1>7, <2>2, <3>1
    <3>2. CASE way \in held /\ h # "data"
      BY <1>1, <2>2, <3>2 DEF IInv, WaysInv
    <3>3. CASE way = h /\ way = "client"
      BY <3>3 DEF UsedFrom
    <3>4. CASE way = h /\ way # "client"
      <4>1. doing = "probe"
        BY <1>1, <1>3, <2>2, <3>4 DEF Orderly, InOrder, Range
      <4>2. UsedFrom(way) \subseteq Range(D.init) \cup Done(left, program) /\ "client" \notin UsedFrom(way)
        BY <1>1, <1>3, <2>2, <3>4, <4>1 DEF Orderly, InOrder, UsedFrom
      <4>3. held \subseteq held'
        BY <1>1, <2>2, <3>4 DEF Ways, Leds
      <4> QED
        BY <1>6, <4>1, <4>2, <4>3
    <3> QED
      BY <1>1, <2>2, <3>1, <3>2, <3>3, <3>4
  <2> QED
    BY <1>1, <2>1, <2>2 DEF WaysInv
<1> QED
  BY <1>4, <1>5, <1>8, <1>9 DEF IInv

LEMMA FailsIInv == MayFail \cap Leds = {} /\ IInv /\ Fails => IInv'
<1> SUFFICES ASSUME MayFail \cap Leds = {}, IInv, Fails PROVE IInv'
  OBVIOUS
<1> USE SameDriver, OfDriver
<1> DEFINE h == Head(left)
           X == StaysBehind(drv)
<1>1. /\ drv \in Drivers /\ drv' = drv /\ left # <<>> /\ doing \in {"init", "probe"}
      /\ h \notin Settings \cup {"client"} \cup Leds
      /\ held' = held /\ loaded' = loaded /\ bound' = bound /\ inside' = inside
      /\ doing = "init" => doing' = "undo_init" /\ left' = D.initFails[h]
      /\ doing = "probe" => doing' = "undo_probe" /\ left' = D.probeFails[h]
  BY DEF Fails, Begin, IInv, TypeOK
<1>2. CASE doing = "init"
  <2>1. IsRestOf(left, D.init)
    BY <1>2 DEF IInv, PhaseInv
  <2>2. PICK j \in DOMAIN D.init :
          h = D.init[j] /\ Done(left, D.init) = {D.init[i] : i \in 1..(j - 1)}
    BY <1>1, <2>1, NextStep
  <2>3. GivesBack(left', Done(left, D.init), D.uses, X)
    BY <1>1, <1>2, <2>2 DEF Orderly, UndoesInit
  <2>4. /\ GoesBack(left', D.uses, X) /\ Range(left') \subseteq Done(left, D.init)
        /\ Done(left, D.init) \subseteq X \cup GivenBack(left')
    BY <2>3 DEF GivesBack
  <2>5. TypeOK'
    BY <1>1, <1>2, <2>4 DEF IInv, TypeOK, GoesBack
  <2>6. PhaseInv'
    BY <1>1, <1>2, <2>4 DEF IInv, PhaseInv
  <2>7. HeldInv'
    BY <1>1, <1>2, <2>4 DEF IInv, HeldInv, MayHold, MustHold
  <2>8. WaysInv'
    BY <1>1 DEF IInv, WaysInv
  <2> QED
    BY <2>5, <2>6, <2>7, <2>8 DEF IInv
<1>3. CASE doing = "probe"
  <2>1. IsRestOf(left, D.probe)
    BY <1>3 DEF IInv, PhaseInv
  <2>2. PICK j \in DOMAIN D.probe :
          h = D.probe[j] /\ Done(left, D.probe) = {D.probe[i] : i \in 1..(j - 1)}
    BY <1>1, <2>1, NextStep
  <2>3. GivesBack(left', Done(left, D.probe), D.uses, X)
    BY <1>1, <1>3, <2>2 DEF Orderly, UndoesProbe
  <2>4. /\ GoesBack(left', D.uses, X) /\ Range(left') \subseteq Done(left, D.probe)
        /\ Done(left, D.probe) \subseteq X \cup GivenBack(left')
    BY <2>3 DEF GivesBack
  <2>5. TypeOK'
    BY <1>1, <1>3, <2>4 DEF IInv, TypeOK, GoesBack
  <2>6. SparesInit'
    <3>1. Done(left, D.probe) \subseteq Range(D.probe)
      BY <1>1, <2>2 DEF Range
    <3> QED
      BY <1>1, <2>4, <3>1 DEF Orderly, Undoes, SparesInit
  <2>7. PhaseInv'
    BY <1>1, <1>3, <2>4, <2>6 DEF IInv, PhaseInv
  <2>8. HeldInv'
    BY <1>1, <1>3, <2>4 DEF IInv, HeldInv, MayHold, MustHold
  <2>9. WaysInv'
    BY <1>1 DEF IInv, WaysInv
  <2> QED
    BY <2>5, <2>7, <2>8, <2>9 DEF IInv
<1> QED
  BY <1>1, <1>2, <1>3

LEMMA FailsHalfwayIInv == IInv /\ FailsHalfway => IInv'
<1> SUFFICES ASSUME IInv, FailsHalfway PROVE IInv'
  OBVIOUS
<1> USE SameDriver, OfDriver
<1> DEFINE X == StaysBehind(drv)
<1>1. /\ drv \in Drivers /\ drv' = drv /\ left # <<>> /\ doing = "probe"
      /\ drv = "accton_wedge100bf" /\ Head(left) = "attrs"
      /\ held' = held \cup {"part"} /\ loaded' = loaded /\ bound' = bound /\ inside' = inside
      /\ doing' = "undo_probe" /\ left' = D.probeFails["attrs"]
  BY DEF FailsHalfway, Begin, IInv, TypeOK
<1>2. /\ X = {"part"} /\ "part" \in Resource /\ "part" \notin Ways
      /\ "attrs" \notin Settings \cup {"client"} \cup Leds
  BY <1>1 DEF StaysBehind, Resource, Ways, Leds, Settings
<1>3. IsRestOf(left, D.probe)
  BY <1>1 DEF IInv, PhaseInv
<1>4. PICK j \in DOMAIN D.probe :
        Head(left) = D.probe[j] /\ Done(left, D.probe) = {D.probe[i] : i \in 1..(j - 1)}
  BY <1>1, <1>3, NextStep
<1>5. GivesBack(left', Done(left, D.probe), D.uses, X)
  BY <1>1, <1>2, <1>4 DEF Orderly, UndoesProbe
<1>6. /\ GoesBack(left', D.uses, X) /\ Range(left') \subseteq Done(left, D.probe)
      /\ Done(left, D.probe) \subseteq X \cup GivenBack(left')
  BY <1>5 DEF GivesBack
<1>7. TypeOK'
  BY <1>1, <1>2, <1>6 DEF IInv, TypeOK, GoesBack
<1>8. SparesInit'
  <2>1. Done(left, D.probe) \subseteq Range(D.probe)
    BY <1>1, <1>4 DEF Range
  <2> QED
    BY <1>1, <1>6, <2>1 DEF Orderly, Undoes, SparesInit
<1>9. PhaseInv'
  BY <1>1, <1>6, <1>8 DEF IInv, PhaseInv
<1>10. HeldInv'
  <2>1. held \subseteq X \cup (Range(D.init) \cup Done(left, D.probe))
    BY <1>1 DEF IInv, HeldInv, MayHold
  <2>2. Range(D.init) \cup Done(left, D.probe) \subseteq held \cup {"client"}
    BY <1>1 DEF IInv, HeldInv, MustHold
  <2>3. /\ MayHold' = Range(D.init) \cup GivenBack(left')
        /\ MustHold' = Range(D.init) \cup Range(left')
    BY <1>1 DEF MayHold, MustHold
  <2> QED
    BY <1>1, <1>2, <1>6, <2>1, <2>2, <2>3 DEF HeldInv
<1>11. WaysInv'
  BY <1>1, <1>2 DEF IInv, WaysInv, UsedFrom
<1> QED
  BY <1>7, <1>9, <1>10, <1>11 DEF IInv

LEMMA AddClientFailsIInv == IInv /\ AddClientFails => IInv'
<1> SUFFICES ASSUME IInv, AddClientFails PROVE IInv'
  OBVIOUS
<1> USE SameDriver, OfDriver
<1>1. /\ drv \in Drivers /\ drv' = drv /\ left # <<>> /\ doing = "probe" /\ doing' = "probe"
      /\ Head(left) = "client" /\ left' = Tail(left)
      /\ held' = held /\ loaded' = loaded /\ bound' = bound /\ inside' = inside
  BY DEF AddClientFails, IInv, TypeOK
<1>2. /\ IsRestOf(left', D.probe)
      /\ Done(left', D.probe) = Done(left, D.probe) \cup {"client"}
  BY <1>1, NextStep DEF IInv, PhaseInv
<1>3. TypeOK'
  BY <1>1, <1>2 DEF IInv, TypeOK, IsRestOf
<1>4. PhaseInv'
  BY <1>1, <1>2 DEF IInv, PhaseInv, GoingBack
<1>5. HeldInv'
  BY <1>1, <1>2 DEF IInv, HeldInv, MayHold, MustHold
<1>6. WaysInv'
  BY <1>1 DEF IInv, WaysInv
<1> QED
  BY <1>3, <1>4, <1>5, <1>6 DEF IInv

LEMMA ReleaseIInv == IInv /\ Release => IInv'
<1> SUFFICES ASSUME IInv, Release PROVE IInv'
  OBVIOUS
<1> USE SameDriver, OfDriver
<1> DEFINE h == Head(left)
           X == StaysBehind(drv)
<1>1. /\ drv \in Drivers /\ drv' = drv /\ GoingBack /\ doing' = doing /\ left # <<>> /\ left' = Tail(left)
      /\ \A p \in Process : inside[p] # h
      /\ held' = held \ (IF h = "data" THEN {"data", "ready"} ELSE {h})
      /\ loaded' = loaded /\ bound' = bound /\ inside' = inside
  BY DEF Release, IInv, TypeOK
<1>2. /\ GoesBack(left, D.uses, X) /\ GoesBack(left', D.uses, X)
      /\ Range(left) = {h} \cup Range(left') /\ h \notin Range(left') /\ h \in Resource
      /\ h \in D.uses \cup {"data"} => Range(left') \cap Ways \subseteq {"client"} \cup X
  BY <1>1, NextBack DEF IInv, PhaseInv
<1>3. TypeOK'
  BY <1>1, <1>2 DEF IInv, TypeOK, GoesBack
<1>4. PhaseInv'
  BY <1>1, <1>2 DEF IInv, PhaseInv, GoingBack, SparesInit
<1>5. HeldInv'
  <2>1. held' \subseteq StaysBehind(drv)' \cup MayHold'
    BY <1>1, <1>2 DEF IInv, HeldInv, MayHold, GivenBack, GoingBack
  <2>2. ~SaysAllIsWell => Range(left') \subseteq held' \cup {"client"}
    BY <1>1, <1>2 DEF IInv, HeldInv, MustHold, GoingBack, GoesBack
  <2>3. ~SaysAllIsWell /\ doing \in {"undo_probe", "remove"} => Range(D.init) \subseteq held' \cup {"client"}
    <3> SUFFICES ASSUME ~SaysAllIsWell, doing \in {"undo_probe", "remove"}
                 PROVE  Range(D.init) \subseteq held' \cup {"client"}
      OBVIOUS
    <3>1. Range(D.init) \subseteq held \cup {"client"} /\ SparesInit
      BY DEF IInv, HeldInv, MustHold, PhaseInv
    <3> QED
      BY <1>1, <1>2, <3>1 DEF SparesInit
  <2> QED
    BY <1>1, <2>1, <2>2, <2>3 DEF HeldInv, MustHold, GoingBack
<1>6. WaysInv'
  <2>1. \A p \in Process : inside[p] # Nowhere => inside[p] \in held'
    BY <1>1 DEF IInv, WaysInv, TypeOK, Ways, Leds
  <2>2. ASSUME NEW way \in (held' \cap Ways) \ X
        PROVE  UsedFrom(way) \subseteq held'
    <3>1. way \in held /\ way \in Ways /\ way \notin X /\ way # h
      BY <1>1, <2>2
    <3>2. UsedFrom(way) \subseteq held /\ UsedFrom(way) \subseteq D.uses
      BY <3>1 DEF IInv, WaysInv, UsedFrom
    <3>3. CASE way = "client"
      BY <3>3 DEF UsedFrom
    <3>4. CASE way # "client"
      <4>1. way \in Range(left')
        <5>1. way \in Range(D.init) \cup GivenBack(left)
          BY <1>1, <3>1 DEF IInv, HeldInv, MayHold, GoingBack
        <5>2. Range(D.init) \cap Ways = {} /\ "ready" \notin Ways
          BY <1>1 DEF Orderly, InOrder, Ways, Leds
        <5> QED
          BY <1>2, <3>1, <5>1, <5>2 DEF GivenBack
      <4>2. h \notin D.uses \cup {"data"}
        BY <1>2, <3>1, <3>4, <4>1
      <4> QED
        BY <1>1, <3>2, <4>2
    <3> QED
      BY <3>3, <3>4
  <2> QED
    BY <1>1, <2>1, <2>2 DEF WaysInv
<1> QED
  BY <1>3, <1>4, <1>5, <1>6 DEF IInv

LEMMA InitDoneIInv == IInv /\ InitDone => IInv'
<1> SUFFICES ASSUME IInv, InitDone PROVE IInv'
  OBVIOUS
<1> USE SameDriver, OfDriver
<1>1. /\ drv \in Drivers /\ drv' = drv /\ doing = "init" /\ left = <<>> /\ loaded' = TRUE
      /\ held' = held /\ ~bound /\ bound' = bound /\ inside' = inside
      /\ \/ doing' = "probe" /\ left' = D.probe
         \/ doing' = "rest" /\ left' = <<>>
  BY DEF InitDone, Begin, IInv, TypeOK, PhaseInv
<1>2. TypeOK'
  BY <1>1 DEF IInv, TypeOK
<1>3. PhaseInv'
  BY <1>1, Begun DEF IInv, PhaseInv, GoingBack
<1>4. HeldInv'
  BY <1>1, Begun, Through DEF IInv, HeldInv, MayHold, MustHold
<1>5. WaysInv'
  BY <1>1 DEF IInv, WaysInv
<1> QED
  BY <1>2, <1>3, <1>4, <1>5 DEF IInv

LEMMA ProbeDoneIInv == IInv /\ ProbeDone => IInv'
<1> SUFFICES ASSUME IInv, ProbeDone PROVE IInv'
  OBVIOUS
<1> USE SameDriver, OfDriver
<1>1. /\ drv \in Drivers /\ drv' = drv /\ doing = "probe" /\ left = <<>> /\ loaded /\ loaded' = loaded
      /\ held' = held /\ bound' = TRUE /\ inside' = inside /\ doing' = "rest" /\ left' = <<>>
  BY DEF ProbeDone, Begin, IInv, TypeOK, PhaseInv
<1>2. TypeOK'
  BY <1>1 DEF IInv, TypeOK
<1>3. PhaseInv'
  BY <1>1 DEF IInv, PhaseInv, GoingBack
<1>4. HeldInv'
  BY <1>1, Through DEF IInv, HeldInv, MayHold, MustHold
<1>5. WaysInv'
  BY <1>1 DEF IInv, WaysInv
<1> QED
  BY <1>2, <1>3, <1>4, <1>5 DEF IInv

LEMMA UndoDoneIInv == IInv /\ UndoDone => IInv'
<1> SUFFICES ASSUME IInv, UndoDone PROVE IInv'
  OBVIOUS
<1> USE SameDriver, OfDriver
<1>1. /\ drv \in Drivers /\ drv' = drv /\ doing \in {"undo_init", "undo_probe"} /\ left = <<>>
      /\ held' = held /\ inside' = inside /\ doing' = "rest" /\ left' = <<>>
      /\ loaded' = (loaded \/ SaysAllIsWell) /\ bound' = (doing = "undo_probe" /\ SaysAllIsWell)
  BY DEF UndoDone, Begin, IInv, TypeOK
<1>2. Range(left) = {} /\ GivenBack(left) = {}
  BY <1>1 DEF Range, GivenBack
<1>3. TypeOK'
  BY <1>1 DEF IInv, TypeOK, SaysAllIsWell
<1>4. PhaseInv'
  BY <1>1 DEF IInv, PhaseInv, GoingBack
<1>5. HeldInv'
  <2>1. /\ doing = "undo_init" => held \subseteq StaysBehind(drv) /\ ~loaded
        /\ doing = "undo_probe" => held \subseteq StaysBehind(drv) \cup Range(D.init) /\ loaded
        /\ doing = "undo_probe" /\ ~SaysAllIsWell => Range(D.init) \subseteq held \cup {"client"}
    BY <1>1, <1>2 DEF IInv, HeldInv, MayHold, MustHold, PhaseInv
  <2>2. held' \subseteq StaysBehind(drv)' \cup MayHold'
    BY <1>1, <2>1 DEF MayHold
  <2>3. ~SaysAllIsWell => MustHold' \subseteq held' \cup {"client"}
    BY <1>1, <2>1 DEF MustHold
  <2> QED
    BY <1>1, <2>2, <2>3 DEF HeldInv
<1>6. WaysInv'
  BY <1>1 DEF IInv, WaysInv
<1> QED
  BY <1>3, <1>4, <1>5, <1>6 DEF IInv

LEMMA DeleteDeviceIInv == IInv /\ DeleteDevice => IInv'
<1> SUFFICES ASSUME IInv, DeleteDevice PROVE IInv'
  OBVIOUS
<1> USE SameDriver, OfDriver
<1>1. /\ drv \in Drivers /\ drv' = drv /\ doing = "rest" /\ doing' = "remove" /\ left' = D.remove
      /\ loaded /\ loaded' = loaded /\ held' = held /\ bound /\ bound' = bound /\ inside' = inside
  BY DEF DeleteDevice, Begin, IInv, TypeOK, PhaseInv
<1>2. /\ GoesBack(D.remove, D.uses, StaysBehind(drv)) /\ Range(D.remove) \subseteq Range(D.probe)
      /\ Range(D.probe) \subseteq StaysBehind(drv) \cup GivenBack(D.remove)
  BY <1>1 DEF Orderly, Undoes, GivesBack
<1>3. TypeOK'
  BY <1>1, <1>2 DEF IInv, TypeOK, GoesBack
<1>4. PhaseInv'
  <2>1. SparesInit'
    BY <1>1, <1>2 DEF SparesInit, Orderly, Undoes
  <2> QED
    BY <1>1, <1>2, <2>1 DEF IInv, PhaseInv
<1>5. HeldInv'
  BY <1>1, <1>2 DEF IInv, HeldInv, MayHold, MustHold
<1>6. WaysInv'
  BY <1>1 DEF IInv, WaysInv
<1> QED
  BY <1>3, <1>4, <1>5, <1>6 DEF IInv

LEMMA UnloadIInv == IInv /\ Unload => IInv'
<1> SUFFICES ASSUME IInv, Unload PROVE IInv'
  OBVIOUS
<1> USE SameDriver, OfDriver
<1> DEFINE X == StaysBehind(drv)
           first == IF bound THEN D.remove ELSE <<>>
<1>1. /\ drv \in Drivers /\ drv' = drv /\ doing = "rest" /\ doing' = "exit" /\ left' = first \o D.exit
      /\ loaded /\ loaded' = loaded /\ held' = held /\ bound' = bound /\ inside' = inside
  BY DEF Unload, Begin, IInv, TypeOK
<1>2. /\ GoesBack(D.remove, D.uses, X) /\ Range(D.remove) \subseteq Range(D.probe)
      /\ Range(D.probe) \subseteq X \cup GivenBack(D.remove)
      /\ GoesBack(D.exit, D.uses, X) /\ Range(D.exit) \subseteq Range(D.init)
      /\ Range(D.init) \subseteq X \cup GivenBack(D.exit)
      /\ Range(D.probe) \cap Range(D.init) = {} /\ Range(D.init) \cap Ways = {}
  BY <1>1 DEF Orderly, InOrder, Undoes, GivesBack
<1>3. /\ GoesBack(first, D.uses, X)
      /\ Range(first) = IF bound THEN Range(D.remove) ELSE {}
  <2>1. <<>> \in Seq(Resource) /\ DOMAIN <<>> = {} /\ Range(<<>>) = {}
    BY DEF Range
  <2> QED
    BY <1>2, <2>1 DEF GoesBack
<1>4. GoesBack(left', D.uses, X) /\ Range(left') = Range(first) \cup Range(D.exit)
  <2> HIDE DEF first
  <2>1. Range(first) \cap Range(D.exit) = {} /\ Range(D.exit) \cap Ways = {}
    BY <1>2, <1>3
  <2> QED
    BY <1>1, <1>2, <1>3, <2>1, BothBack
<1> HIDE DEF first
<1>5. TypeOK'
  BY <1>1, <1>4 DEF IInv, TypeOK, GoesBack
<1>6. PhaseInv'
  BY <1>1, <1>4 DEF IInv, PhaseInv
<1>7. HeldInv'
  <2>1. held' \subseteq StaysBehind(drv)' \cup MayHold'
    BY <1>1, <1>2, <1>3, <1>4 DEF IInv, HeldInv, MayHold, GivenBack
  <2>2. ~SaysAllIsWell => MustHold' \subseteq held' \cup {"client"}
    BY <1>1, <1>2, <1>3, <1>4 DEF IInv, HeldInv, MustHold
  <2> QED
    BY <1>1, <2>1, <2>2 DEF HeldInv
<1>8. WaysInv'
  BY <1>1 DEF IInv, WaysInv
<1> QED
  BY <1>5, <1>6, <1>7, <1>8 DEF IInv

LEMMA RemoveDoneIInv == IInv /\ RemoveDone => IInv'
<1> SUFFICES ASSUME IInv, RemoveDone PROVE IInv'
  OBVIOUS
<1> USE SameDriver, OfDriver
<1>1. /\ drv \in Drivers /\ drv' = drv /\ doing \in {"remove", "exit"} /\ left = <<>>
      /\ held' = held /\ inside' = inside /\ doing' = "rest" /\ left' = <<>>
      /\ loaded /\ loaded' = (doing = "remove") /\ bound' = FALSE
  BY DEF RemoveDone, Begin, IInv, TypeOK, PhaseInv
<1>2. Range(left) = {} /\ GivenBack(left) = {}
  BY <1>1 DEF Range, GivenBack
<1>3. TypeOK'
  BY <1>1 DEF IInv, TypeOK
<1>4. PhaseInv'
  BY <1>1 DEF IInv, PhaseInv, GoingBack
<1>5. HeldInv'
  BY <1>1, <1>2 DEF IInv, HeldInv, MayHold, MustHold
<1>6. WaysInv'
  BY <1>1 DEF IInv, WaysInv
<1> QED
  BY <1>3, <1>4, <1>5, <1>6 DEF IInv

LEMMA InOrOutIInv == ASSUME NEW p \in Process, IInv, Enter(p) \/ Leave(p) PROVE IInv'
<1> USE SameDriver, OfDriver
<1>1. /\ drv \in Drivers /\ drv' = drv /\ doing' = doing /\ left' = left /\ held' = held
      /\ loaded' = loaded /\ bound' = bound /\ inside \in [Process -> Ways \cup {Nowhere}]
      /\ \E way \in (held \cap Ways) \cup {Nowhere} : inside' = [inside EXCEPT ![p] = way]
  BY DEF Enter, Leave, IInv, TypeOK
<1>2. TypeOK'
  BY <1>1 DEF IInv, TypeOK
<1>3. PhaseInv'
  BY <1>1 DEF IInv, PhaseInv, GoingBack, SparesInit
<1>4. HeldInv'
  BY <1>1 DEF IInv, HeldInv, MayHold, MustHold
<1>5. WaysInv'
  BY <1>1 DEF IInv, WaysInv
<1> QED
  BY <1>2, <1>3, <1>4, <1>5 DEF IInv

LEMMA NextIInv == MayFail \cap Leds = {} /\ IInv /\ [Next]_vars => IInv'
<1> SUFFICES ASSUME MayFail \cap Leds = {}, IInv, [Next]_vars PROVE IInv'
  OBVIOUS
<1>1. CASE UNCHANGED vars
  <2>1. /\ drv \in Drivers /\ drv' = drv /\ doing' = doing /\ left' = left /\ held' = held
        /\ loaded' = loaded /\ bound' = bound /\ inside' = inside
    BY <1>1 DEF vars, IInv, TypeOK
  <2> QED
    BY <2>1, SameDriver DEF IInv, TypeOK, PhaseInv, HeldInv, WaysInv, GoingBack, SparesInit, MayHold, MustHold
<1>2. CASE Next
  BY <1>2, LoadIInv, NewDeviceIInv, AcquireIInv, FailsIInv, FailsHalfwayIInv,
     AddClientFailsIInv, ReleaseIInv,
     InitDoneIInv, ProbeDoneIInv, UndoDoneIInv, DeleteDeviceIInv, UnloadIInv, RemoveDoneIInv,
     InOrOutIInv DEF Next
<1> QED
  BY <1>1, <1>2

LEMMA InvariantHolds ==
  ASSUME MayFail \cap Leds = {}
  PROVE  Spec => []IInv
<1>1. IInv /\ [Next]_vars => IInv'
  BY NextIInv
<1> QED
  BY <1>1, InitIInv, PTL DEF Spec

-----------------------------------------------------------------------------
(* What follows from it.                                                     *)

\* Every value is of its type, and what is left to do is a sequence of things
\* the driver can acquire: init, probe, remove, exit and what their gotos run
\* into.
THEOREM Types ==
  ASSUME MayFail \cap Leds = {}
  PROVE  Spec => []TypeOK
<1>1. IInv => TypeOK
  BY DEF IInv
<1> QED
  BY <1>1, InvariantHolds, PTL

\* However init or probe fails and in whatever order devices come and go, a
\* module without a device holds what init acquired, and one that is not
\* loaded nothing, but for what the drivers in StaysBehind forget.
THEOREM UndoneCompletely ==
  ASSUME MayFail \cap Leds = {}
  PROVE  Spec => []NothingLeft
<1>1. IInv => NothingLeft
  BY DEF IInv, HeldInv, MayHold, NothingLeft
<1> QED
  BY <1>1, InvariantHolds, PTL

\* Whoever runs in a show, a store or an exported function finds what it uses,
\* through every load, failed probe and unload beside it.
THEOREM UsersAreSafe ==
  ASSUME MayFail \cap Leds = {}
  PROVE  Spec => []FindsData
<1>1. IInv => FindsData
  BY DEF IInv, WaysInv, TypeOK, FindsData, Used
<1> QED
  BY <1>1, InvariantHolds, PTL

\* Nothing is given back twice, or without being held.
THEOREM GivenBackOnce ==
  ASSUME MayFail \cap Leds = {}
  PROVE  Spec => []GivesBackOwn
<1>1. IInv => GivesBackOwn
  <2> SUFFICES ASSUME IInv, ~SaysAllIsWell, GoingBack
               PROVE  /\ \A i \in DOMAIN left : left[i] \in held \cup {"client"}
                      /\ \A i, j \in DOMAIN left : left[i] = left[j] => i = j
    BY DEF GivesBackOwn
  <2>1. Range(left) \subseteq held \cup {"client"}
    BY DEF IInv, HeldInv, MustHold, GoingBack
  <2> QED
    BY <2>1 DEF IInv, PhaseInv, GoesBack, Range
<1> QED
  BY <1>1, InvariantHolds, PTL

=============================================================================
