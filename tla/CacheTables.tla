----------------------------- MODULE CacheTables -----------------------------
(***************************************************************************)
(* The drivers of fans and power supplies: what their update_device reads,  *)
(* and in which order, what their files show, and what a store runs.        *)
(***************************************************************************)
EXTENDS CacheSteps
LOCAL INSTANCE SequencesExt

\* The cells of one kind, of the units 1..n.
Of(kind, n) == {kind} \X (1..n)
Cell0(kind) == <<kind, 0>>

\* What a driver shows without looking at valid, and what it shows only then.
Shown == <<Update, Answer>>
ShownIfValid == <<Update, Check, Answer>>

-----------------------------------------------------------------------------
(* The fan drivers with a CPLD of their own: present and direction of all    *)
(* fans in one register each, one duty cycle, two speeds of each fan.        *)

FanRegisters(n, direction) ==
  <<Of("present", n)>> \o direction \o <<{Cell0("duty")}>>
    \o [i \in 1..n |-> {<<"front", i>>}] \o [i \in 1..n |-> {<<"rear", i>>}]

fan_update_device(regs) ==
  <<Clear>> \o [i \in DOMAIN regs |-> Read(regs[i], "abort")] \o <<Others("abort"), Done>>

\* Written without the lock, and not put in the cache.
set_duty_cycle(v, own) == <<Whole({Cell0("watchdog")}, 0, FALSE), Whole({Cell0("duty")}, v, own)>>

set_enable(v) ==
  <<Update, Put(Cell0("enable"), v)>> \o (IF v = 0 THEN set_duty_cycle(0, FALSE) ELSE <<>>)

FanFiles(n) ==
  [f \in Of("present", n) |-> File("not", <<f>>, ShownIfValid)]
    @@ [f \in Of("front", n) \cup Of("rear", n) |-> File("is", <<f>>, ShownIfValid)]
    @@ [f \in Of("fault", n) |->
          File("both", <<<<"front", f[2]>>, <<"rear", f[2]>>>>, ShownIfValid)]
    @@ (Cell0("duty") :> Writable(File("is", <<Cell0("duty")>>, ShownIfValid),
                                  LAMBDA v : {set_duty_cycle(v, TRUE)}))

DirectionFiles(n) == [f \in Of("direction", n) |-> File("is", <<f>>, ShownIfValid)]

EnableFile ==
  Cell0("enable") :> Kept(Writable(File("is", <<Cell0("enable")>>, Shown),
                                   LAMBDA v : {set_enable(v)}))

as7312_54x_fan_attributes == FanFiles(6) @@ DirectionFiles(6) @@ EnableFile
as7312_54x_fan ==
  Driver(fan_update_device(FanRegisters(6, <<Of("direction", 6)>>)), as7312_54x_fan_attributes)

as7326_56x_fan_attributes == as7312_54x_fan_attributes
as7326_56x_fan == as7312_54x_fan

as7716_32x_fan_attributes == as7312_54x_fan_attributes
as7716_32x_fan == as7312_54x_fan

as7712_32x_fan_attributes == FanFiles(6) @@ EnableFile
as7712_32x_fan ==
  Driver(fan_update_device(FanRegisters(6, <<>>)), as7712_32x_fan_attributes)

as7726_32x_fan_attributes == FanFiles(6) @@ DirectionFiles(6)
as7726_32x_fan ==
  Driver(fan_update_device(FanRegisters(6, <<Of("direction", 6)>>)), as7726_32x_fan_attributes)

as7816_64x_fan_attributes == FanFiles(4) @@ DirectionFiles(4)
as7816_64x_fan ==
  Driver(fan_update_device(FanRegisters(4, <<Of("direction", 4)>>)), as7816_64x_fan_attributes)

-----------------------------------------------------------------------------
(* The fan drivers of the boards with one CPLD.  The four common registers   *)
(* are read into variables, which go to the cache fan by fan.                *)

FanStatus(i) == {<<"status", i>>, <<"r_status", i>>, <<"direction", i>>, <<"duty", i>>}
FanSpeeds(i) == <<Fetch({<<"speed", i>>}, "abort"), Fetch({<<"r_speed", i>>}, "abort")>>
BothSpeeds(i) == {<<"speed", i>>, <<"r_speed", i>>}

cpld_fan_update_device(direction, speeds(_)) ==
  <<Clear, Fetch(Of("status", 5), "abort"), Fetch(Of("r_status", 5), "abort"),
    Fetch(Of("direction", 5), direction), Fetch(Of("duty", 5), "abort"), Others("abort")>>
    \o FlattenSeq([i \in 1..5 |-> <<Store(FanStatus(i))>> \o speeds(i) \o <<Store(BothSpeeds(i))>>])
    \o <<Done>>

\* valid is cleared without the lock.
fan_set_duty_cycle(v) == {<<Whole(Of("duty", 5), v, TRUE), Clear>>}

CpldFanFiles ==
  [f \in Of("status", 5) \cup Of("r_status", 5) \cup Of("direction", 5) |->
      File("is", <<f>>, ShownIfValid)]
    @@ [f \in Of("speed", 5) \cup Of("r_speed", 5) |->
          FileOn("is", <<f>>, BothSpeeds(f[2]), ShownIfValid)]
    @@ [f \in Of("duty", 5) |-> Writable(File("is", <<f>>, ShownIfValid), fan_set_duty_cycle)]

accton_as5812_54t_fan_attributes == CpldFanFiles
accton_as5812_54t_fan ==
  Driver(cpld_fan_update_device("abort", FanSpeeds), accton_as5812_54t_fan_attributes)

\* A speed of 0 is read up to three times; the direction is used unchecked.
SpeedsRetried(i) ==
  LET again(then) == FanSpeeds(i) \o UnlessAll(BothSpeeds(i), then)
  IN  again(again(FanSpeeds(i)))

accton_as6712_32x_fan_attributes == CpldFanFiles
accton_as6712_32x_fan ==
  Driver(cpld_fan_update_device("errno", SpeedsRetried), accton_as6712_32x_fan_attributes)

-----------------------------------------------------------------------------
(* The drivers of the power supplies' slots: present and power good of the   *)
(* CPLD, and the model name in the EEPROM of the supply.                     *)

present == Cell0("psu_present")
good == Cell0("psu_power_good")
name == Cell0("psu_model_name")
fan_dir == Cell0("psu_fan_dir")
dc_12v == Cell0("psu_is_12v")      \* what the model name says

StatusFiles(show) ==
  (present :> File("not", <<present>>, show)) @@ (good :> File("is", <<good>>, show))

\* The name is blanked and read in the refresh; errors are passed over.
as7712_32x_psu_update_device ==
  <<Read({present, good}, "keep"), Blank({name})>>
    \o When(good, One, <<Read({name}, "blank")>>) \o <<Done>>
as7712_32x_psu ==
  Driver(as7712_32x_psu_update_device,
         StatusFiles(Shown) @@ (name :> FileOn("is", <<name>>, {good}, Shown)))

as7312_54x_psu_update_device == as7712_32x_psu_update_device
as7312_54x_psu == as7712_32x_psu
as7326_56x_psu_update_device == as7712_32x_psu_update_device
as7326_56x_psu == as7712_32x_psu
as7726_32x_psu_update_device == as7712_32x_psu_update_device
as7726_32x_psu == as7712_32x_psu

\* The name is read by each show of it, after the lock was let go of.  A name
\* that is none of the models' is blanked and not shown.
as5712_54x_psu_update_device == <<Clear, Read({present, good}, "abort"), Others("abort"), Done>>
as5712_54x_psu_model_name_get == <<Blank({name}), Read({name}, "abort")>>
as5712_54x_psu ==
  Driver(as5712_54x_psu_update_device,
         StatusFiles(ShownIfValid)
           @@ (name :> FileOn("is", <<name>>, {present},
                 <<Update, Check>>
                   \o When(present, {}, as5712_54x_psu_model_name_get
                                         \o When(name, One, <<Answer>>)))))

as5812_54t_psu_update_device == as5712_54x_psu_update_device
as5812_54t_psu == as5712_54x_psu
as6712_32x_psu_update_device == as5712_54x_psu_update_device
as6712_32x_psu == as5712_54x_psu

\* The name, and a 12V supply's fan direction, are read in the refresh, which a
\* name of none of the models ends.
as7716_32x_psu_model_name_get ==
  <<Read({name, dc_12v}, "abort")>> \o When(name, {}, <<GiveUp>>)
    \o When(dc_12v, One, <<Read({fan_dir}, "abort")>>)
as7716_32x_psu_update_device ==
  <<Clear, Read({present, good}, "abort"), Blank({name, fan_dir, dc_12v})>>
    \o When(good, One, as7716_32x_psu_model_name_get) \o <<Done>>
as7716_32x_psu ==
  LET read == {present, good, name, dc_12v, fan_dir}
  IN  Driver(as7716_32x_psu_update_device,
             (present :> FileOn("not", <<present>>, read, ShownIfValid))
               @@ [f \in {good, name, fan_dir} |-> FileOn("is", <<f>>, read, ShownIfValid)])

as7816_64x_psu_update_device == <<Clear, Read({present, good}, "abort"), Others("abort"), Done>>
as7816_64x_psu == Driver(as7816_64x_psu_update_device, StatusFiles(ShownIfValid))
=============================================================================
