----------------------------- MODULE PmbusTables -----------------------------
(***************************************************************************)
(* The drivers of the power supplies' own controllers, and those of         *)
(* AS7716-32XB, where a daemon stores what the files then show.             *)
(***************************************************************************)
EXTENDS CacheTables, SequencesExt

Cells(names) == {Cell0(n) : n \in names}
Reads(names, otherwise) == [i \in DOMAIN names |-> Read({Cell0(names[i])}, otherwise)]

duty_cycle == Cell0("psu_fan1_duty_cycle_percentage")
v_out == <<Cell0("psu_v_out"), Cell0("vout_mode")>>

\* Put in the cache and written under the lock.
set_fan_duty_cycle(v) ==
  {<<Lock, Put(duty_cycle, v), Whole({duty_cycle}, v, TRUE), Unlock>>}

-----------------------------------------------------------------------------
(* ym2651y.                                                                  *)

YmBytes == <<"vout_mode", "psu_over_temp", "psu_fan1_fault", "psu_pmbus_revision">>
YmStatus == {"psu_power_on", "psu_temp_fault", "psu_power_good"}   \* one word
YmWords ==
  <<"psu_v_out", "psu_i_out", "psu_p_out", "psu_temp1_input", "psu_fan1_duty_cycle_percentage",
    "psu_fan1_speed_rpm", "psu_mfr_vin_min", "psu_mfr_vin_max", "psu_mfr_iin_max",
    "psu_mfr_pin_max", "psu_mfr_vout_min", "psu_mfr_vout_max", "psu_mfr_iout_max",
    "psu_mfr_pout_max">>
YmStrings == <<"psu_mfr_id", "psu_mfr_model", "psu_mfr_revision">>

\* The numbers, the fan's direction, which is read into a variable of the
\* refresh in some drivers, and the strings.
YmReads(numbers, direction, strings) ==
  Reads(YmBytes, numbers) \o <<Read(Cells(YmStatus), numbers)>> \o Reads(YmWords, numbers)
    \o <<Read({Cell0("psu_fan_dir")}, direction)>> \o Reads(YmStrings, strings)

YmFiles(show, vout) ==
  LET shown(shows, names) == [f \in Cells(names) |-> File(shows, <<f>>, show)]
      names(seq) == {seq[i] : i \in DOMAIN seq}
  IN  (duty_cycle :> Writable(File("is", <<duty_cycle>>, show), set_fan_duty_cycle))
        @@ (v_out[1] :> File("is", vout, show))
        @@ shown("not", {"psu_power_on", "psu_power_good"})
        @@ shown("is", {"psu_temp_fault", "psu_fan_dir"} \cup names(YmWords) \cup names(YmStrings)
                         \cup (names(YmBytes) \ {"vout_mode"}))

as5712_54x_ym2651y_update_device ==
  <<Clear>> \o YmReads("abort", "abort", "abort") \o <<Others("abort"), Done>>
as5712_54x_ym2651y_attributes == YmFiles(ShownIfValid, v_out)
as5712_54x_ym2651y == Driver(as5712_54x_ym2651y_update_device, as5712_54x_ym2651y_attributes)

as5812_54t_ym2651y_update_device == as5712_54x_ym2651y_update_device
as5812_54t_ym2651y_attributes == as5712_54x_ym2651y_attributes
as5812_54t_ym2651y == as5712_54x_ym2651y

as7726_32x_ym2651y_update_device == YmReads("keep", "blank", "keep") \o <<Done>>
as7726_32x_ym2651y_attributes == YmFiles(Shown, <<v_out[1]>>)
as7726_32x_ym2651y == Driver(as7726_32x_ym2651y_update_device, as7726_32x_ym2651y_attributes)

as7716_32x_ym2651y_update_device == as7726_32x_ym2651y_update_device
as7716_32x_ym2651y_attributes == as7726_32x_ym2651y_attributes
as7716_32x_ym2651y == as7726_32x_ym2651y

common_ym2651y_update_device == YmReads("blank", "blank", "keep") \o <<Done>>
common_ym2651y_attributes == YmFiles(Shown, <<v_out[1]>>)
common_ym2651y == Driver(common_ym2651y_update_device, common_ym2651y_attributes)

-----------------------------------------------------------------------------
(* cpr_4011_4mxx.                                                            *)

CprBytes == <<"vout_mode", "psu_fan1_fault">>
CprInputs == <<"psu_v_in", "psu_v_out", "psu_i_in", "psu_i_out", "psu_p_out", "psu_p_in">>
CprOthers == <<"psu_temp1_input", "psu_fan1_duty_cycle_percentage", "psu_fan1_speed_rpm">>

CprFiles(also) ==
  LET words == CprInputs \o CprOthers
      is(f) == FileOn("is", IF f = v_out[1] THEN v_out ELSE <<f>>, also, Shown)
  IN  (duty_cycle :> Writable(is(duty_cycle), set_fan_duty_cycle))
        @@ [f \in Cells({"psu_fan1_fault"} \cup {words[i] : i \in DOMAIN words}) |-> is(f)]

as5712_54x_cpr_4011_4mxx_update_device ==
  Reads(CprBytes \o CprInputs \o CprOthers, "keep") \o <<Done>>
as5712_54x_cpr_4011_4mxx_attributes == CprFiles({})
as5712_54x_cpr_4011_4mxx ==
  Driver(as5712_54x_cpr_4011_4mxx_update_device, as5712_54x_cpr_4011_4mxx_attributes)

as7716_32x_cpr_4011_4mxx_update_device == as5712_54x_cpr_4011_4mxx_update_device
as7716_32x_cpr_4011_4mxx_attributes == as5712_54x_cpr_4011_4mxx_attributes
as7716_32x_cpr_4011_4mxx == as5712_54x_cpr_4011_4mxx

\* The output power is read first, and while it is 0 so is every other word.
common_cpr_4011_4mxx_update_device ==
  LET p_out == Cell0("psu_p_out")
      words == <<"psu_p_in", "psu_v_out", "psu_i_in", "psu_i_out">> \o CprOthers
  IN  Reads(CprBytes \o <<"psu_p_out">>, "blank")
        \o FlattenSeq([i \in DOMAIN words |->
             <<Read({Cell0(words[i])}, "blank")>> \o When(p_out, {}, <<Blank({Cell0(words[i])})>>)])
        \o <<Done>>
common_cpr_4011_4mxx_attributes == CprFiles({Cell0("psu_p_out")})
common_cpr_4011_4mxx ==
  Driver(common_cpr_4011_4mxx_update_device, common_cpr_4011_4mxx_attributes)

-----------------------------------------------------------------------------
(* AS7716-32XB: nothing is read, shows and stores are of the driver's memory. *)

InMemory(shows, of, programs(_)) ==
  Kept(Writable(File(shows, of, <<Lock, Answer, Unlock>>),
                LAMBDA v : {<<Lock>> \o puts \o <<Unlock>> : puts \in programs(v)}))

Memory(cell) == InMemory("is", <<cell>>, LAMBDA v : {<<Put(cell, v)>>})

\* What is stored is not what is shown.
StoredBeside(of, to) == InMemory("is", <<of>>, LAMBDA v : {<<Put(to, v)>>})
Dropped(of) == InMemory("is", <<of>>, LAMBDA v : {<<>>})

\* A speed stored for the rear goes on to present, which takes 0 and 1.
StoreRear(i) ==
  LET programs(v) == {<<Put(<<"rear", i>>, v), Put(<<"present", i>>, v)>>}
                       \cup (IF v = 1 THEN {<<Put(<<"rear", i>>, v)>>} ELSE {})
  IN  InMemory("is", <<<<"rear", i>>>>, programs)

as7716_32xb_fan_attributes ==
  (Cell0("duty") :> Memory(Cell0("duty")))
    @@ [f \in Of("front", 6) \cup Of("present", 6) \cup Of("direction", 6) |-> Memory(f)]
    @@ [f \in Of("rear", 6) |-> StoreRear(f[2])]
    @@ [f \in Of("fault", 6) |-> InMemory("both", <<<<"front", f[2]>>, <<"rear", f[2]>>>>,
                                          LAMBDA v : {<<Put(f, v)>>})]
as7716_32xb_fan == Driver(<<>>, as7716_32xb_fan_attributes)

as7716_32xb_psu_attributes == [f \in {present, good, name, fan_dir} |-> Memory(f)]
as7716_32xb_psu == Driver(<<>>, as7716_32xb_psu_attributes)

as7716_32xb_pmbus_attributes ==
  LET words == {YmWords[i] : i \in DOMAIN YmWords} \ {"psu_mfr_vout_min", "psu_fan1_duty_cycle_percentage"}
      kept == words \cup YmStatus \cup {"psu_over_temp", "psu_fan_dir", "psu_mfr_id",
                                        "psu_mfr_model", "psu_mfr_revision"}
  IN  [f \in Cells(kept) |-> Memory(f)]
        @@ (Cell0("psu_mfr_vout_min") :>
              StoredBeside(Cell0("psu_mfr_vin_max"), Cell0("psu_mfr_vout_min")))
        @@ [f \in {duty_cycle, Cell0("psu_fan1_fault")} |-> Dropped(f)]
        @@ (Cell0("power1_input") :> Dropped(Cell0("psu_p_out")))
as7716_32xb_pmbus == Driver(<<>>, as7716_32xb_pmbus_attributes)

\* The limits are always shown as the default.
as7716_32xb_thermal_attributes ==
  (Cell0("temp1_input") :> Memory(Cell0("temp1_input")))
    @@ [f \in Cells({"temp1_max", "temp1_max_hyst"}) |-> StoredBeside(Cell0("default"), f)]
as7716_32xb_thermal == Driver(<<>>, as7716_32xb_thermal_attributes)

\* A text of less than 256 characters leaves an EEPROM blank.
as7716_32xb_sys == Driver(<<>>, Cell0("eeprom") :> Memory(Cell0("eeprom")))
as7716_32xb_oom == Driver(<<>>, [f \in Cells({"eeprom", "port_name"}) |-> Memory(f)])
=============================================================================
