--------------------------- MODULE MCCachedDrivers ---------------------------
(* The drivers whose tables differ, each with two files of interest.         *)
EXTENDS CachedDrivers

CONSTANTS p1, p2

MCActor == {p1, p2}
MCSymmetry == Permutations(MCActor)
MCErrnoBits == {0, 1, 3, 4, 5, 6, 7}   \* -EIO

MCOpen(d) ==
  CASE d = "as5712_54x_leds"  -> {<<"fan", 1>>, <<"fan", 2>>}
    [] d = "as6712_32x_leds"  -> {<<"diag", 0>>}
    [] d = "as7726_32x_leds"  -> {<<"diag", 0>>}
    [] d = "as7712_32x_leds"  -> {<<"port", 0>>}
    [] d = "as7816_64x_leds"  -> {<<"fan", 0>>, <<"loc", 0>>}
    [] d = "as7716_32xb_leds" -> {<<"loc", 0>>}
    [] d = "as7312_54x_fan"   -> {<<"duty", 0>>, <<"enable", 0>>}
    [] d = "as7816_64x_fan"   -> {<<"fault", 1>>, <<"present", 1>>}
    [] d = "as7726_32x_fan"   -> {<<"direction", 1>>, <<"front", 1>>}
    [] d = "as5812_54t_fan"   -> {<<"duty", 1>>, <<"status", 2>>}
    [] d = "as6712_32x_fan"   -> {<<"speed", 1>>, <<"direction", 1>>}
    [] d = "as7712_32x_psu"   -> {<<"psu_model_name", 0>>}
    [] d = "as5712_54x_psu"   -> {<<"psu_model_name", 0>>}
    [] d = "as7716_32x_psu"   -> {<<"psu_fan_dir", 0>>}
    [] d = "as7816_64x_psu"   -> {<<"psu_present", 0>>, <<"psu_power_good", 0>>}
    [] d = "as5712_54x_ym2651y" -> {<<"psu_v_out", 0>>, <<"psu_fan1_duty_cycle_percentage", 0>>}
    [] d = "as7726_32x_ym2651y" -> {<<"psu_fan_dir", 0>>, <<"psu_fan1_duty_cycle_percentage", 0>>}
    [] d = "common_ym2651y"   -> {<<"psu_mfr_id", 0>>, <<"psu_fan1_duty_cycle_percentage", 0>>}
    [] d = "common_cpr_4011_4mxx" -> {<<"psu_fan1_duty_cycle_percentage", 0>>}
    [] d = "as7716_32xb_fan"  -> {<<"rear", 1>>, <<"present", 1>>}
    [] d = "as7716_32xb_pmbus" -> {<<"psu_mfr_vin_max", 0>>, <<"psu_mfr_vout_min", 0>>}
    [] d = "as7716_32xb_thermal" -> {<<"temp1_input", 0>>, <<"temp1_max", 0>>}

MCDrivers ==
  {"as5712_54x_leds", "as6712_32x_leds", "as7726_32x_leds", "as7712_32x_leds", "as7816_64x_leds",
   "as7716_32xb_leds", "as7312_54x_fan", "as7816_64x_fan", "as7726_32x_fan", "as5812_54t_fan",
   "as6712_32x_fan", "as7712_32x_psu", "as5712_54x_psu", "as7716_32x_psu", "as7816_64x_psu",
   "as5712_54x_ym2651y", "as7726_32x_ym2651y", "common_ym2651y", "common_cpr_4011_4mxx",
   "as7716_32xb_fan", "as7716_32xb_pmbus", "as7716_32xb_thermal"}

\* A board whose LED diag is looked for in vain.
MCDiagOpen(d) == {<<"diag", 0>>}
MCDiagDrivers == {"as7712_32x_leds"}
=============================================================================
