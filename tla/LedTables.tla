------------------------------ MODULE LedTables ------------------------------
(***************************************************************************)
(* The LED drivers: which bits of which register a LED has, the light modes *)
(* they stand for, and what brightness_set and brightness_get run.          *)
(***************************************************************************)
EXTENDS CacheSteps, FiniteSets

Cell(reg) == <<"led_reg", reg>>
Elsewhere == <<"led_reg", 255>>   \* a register no LED of the driver is in

\* One row of led_type_mode_data.
Row(mode, bits) == [mode |-> mode, bits |-> bits]
ModesOf(rows) == {rows[i].mode : i \in DOMAIN rows}

\* The modes a LED can be told: brightness is any number up to
\* max_brightness, so those of the rows and, unless every number up to it has
\* a row, one without; beyond are the modes that cannot be told.
UNLISTED == "UNLISTED"
Settable(rows, beyond) == (ModesOf(rows) \cup {UNLISTED}) \ beyond

led_reg_val_to_light_mode(led, val) ==
  LET fits == {i \in DOMAIN led.rows : led.rows[i].bits = val \cap led.mask}
  IN  IF fits = {} THEN led.other ELSE led.rows[CHOOSE i \in fits : TRUE].mode

\* The first row of a mode says what is written; for a mode without a row the
\* register is written back as it was.
led_light_mode_to_reg_val(reg, mask, rows, mode) ==
  IF mode = UNLISTED THEN Change(Cell(reg), {}, {}, FALSE)
  ELSE LET first == CHOOSE i \in DOMAIN rows :
                      rows[i].mode = mode /\ \A j \in 1..(i - 1) : rows[j].mode # mode
       IN  Change(Cell(reg), mask, rows[first].bits, TRUE)

led_set(reg, mask, rows, mode) ==
  <<Lock, Get(Cell(reg), "abort"), led_light_mode_to_reg_val(reg, mask, rows, mode),
    Clear, Unlock>>

led_get == <<Update, Answer>>

led_update(regs) == [i \in DOMAIN regs |-> Read({Cell(regs[i])}, "invalid")] \o <<Done>>

\* A LED whose unlisted bits read as the mode other.
Led(reg, mask, rows, other, beyond) ==
  [shows |-> "mode", of |-> <<Cell(reg)>>, watch |-> {Cell(reg)}, from |-> "cache",
   home |-> "chip", show |-> led_get, mask |-> mask, rows |-> rows, other |-> other,
   set |-> [m \in Settable(rows, beyond) |-> {led_set(reg, mask, rows, m)}]]

-----------------------------------------------------------------------------
(* AS5712-54X, AS5812-54T and AS6712-32X: four registers of the CPLD.        *)

TwoBits(reg, b, other) ==
  Led(reg, {b, b + 1},
      <<Row("GREEN", {b + 1}), Row("AMBER", {b}), Row("AUTO", {}), Row("OFF", {b, b + 1})>>,
      other, {})

FanX(reg, b, other) ==
  Led(reg, {b, b + 1}, <<Row("GREEN", {b}), Row("RED", {b + 1}), Row("OFF", {})>>, other, {})

Loc(reg, other) ==
  Led(reg, {4, 5}, <<Row("AMBER", {}), Row("OFF", {4}), Row("AMBER_BLINK", {5})>>, other, {})

Diag(reg, other) ==
  Led(reg, {2, 3}, <<Row("GREEN", {3}), Row("AMBER", {2}), Row("OFF", {2, 3})>>, other, {})

\* Bit 6 makes the LED blink, whatever the two bits of its colour are.
DiagBlinks(reg) ==
  Led(reg, {2, 3, 6},
      <<Row("GREEN", {3}), Row("AMBER", {2}), Row("OFF", {2, 3}), Row("GREEN_BLINK", {3, 6}),
        Row("GREEN_BLINK", {6}), Row("GREEN_BLINK", {2, 6}), Row("GREEN_BLINK", {2, 3, 6})>>,
      "OFF", {})

\* The LEDs that are not on fans.
FrontLeds(diag, other) ==
  (<<"psu", 1>> :> TwoBits(11, 0, other)) @@ (<<"psu", 2>> :> TwoBits(11, 2, other))
    @@ (<<"fan", 0>> :> TwoBits(10, 0, other)) @@ (<<"diag", 0>> :> diag)
    @@ (<<"loc", 0>> :> Loc(10, other))

\* Register and first bit of the LEDs of the five fans.
FanLeds(places, other) ==
  [k \in {"fan"} \X (1..5) |-> FanX(places[k[2]][1], places[k[2]][2], other)]

as5712_54x_led_type_mode_data ==
  FrontLeds(Diag(10, "OFF"), "OFF")
    @@ FanLeds(<<<<22, 0>>, <<22, 2>>, <<22, 4>>, <<22, 6>>, <<23, 0>>>>, "OFF")
as5712_54x_leds ==
  Driver(led_update(<<10, 11, 22, 23>>), as5712_54x_led_type_mode_data)

as5812_54t_led_type_mode_data ==
  FrontLeds(Diag(10, "UNKNOWN"), "UNKNOWN")
    @@ FanLeds(<<<<22, 0>>, <<22, 2>>, <<22, 4>>, <<22, 6>>, <<23, 0>>>>, "UNKNOWN")
as5812_54t_leds ==
  Driver(led_update(<<10, 11, 22, 23>>), as5812_54t_led_type_mode_data)

as6712_32x_led_type_mode_data ==
  FrontLeds(DiagBlinks(10), "OFF")
    @@ FanLeds(<<<<15, 0>>, <<14, 6>>, <<14, 4>>, <<14, 2>>, <<14, 0>>>>, "OFF")
as6712_32x_leds ==
  Driver(led_update(<<10, 11, 14, 15>>), as6712_32x_led_type_mode_data)

-----------------------------------------------------------------------------
(* The boards with one register for the LEDs diag and loc.  The LEDs of fans *)
(* and PSUs are the hardware's: a store does nothing, a show says AUTO.      *)

\* getLedReg tests types & (type << 1), which for diag, type 0, is never true:
\* the register is the one the uninitialised variable holds, the right one or
\* any other.
getLedReg(led, mode) ==
  led.set[mode] \cup {<<Lock, Get(Elsewhere, "abort"), Change(Elsewhere, {}, {}, FALSE), Clear, Unlock>>}

DiagSomewhere(rows, beyond) ==
  LET led == Led(65, {0, 1}, rows, "OFF", beyond)
  IN  [led EXCEPT !.set = [m \in DOMAIN led.set |-> getLedReg(led, m)]]

DiagRows(mixed) ==
  <<Row("OFF", {0, 1}), Row("GREEN", {1}), Row("RED", {0})>> \o mixed

OneRegister(loc, diag) ==
  Driver(led_update(<<65>>),
         (<<"loc", 0>> :> Led(65, {7}, <<Row("OFF", {7}), Row(loc, {})>>, "OFF", {}))
           @@ (<<"diag", 0>> :> diag))

\* Both colours together, which is yellow.
Mixed(mode) == <<Row(mode, {})>>

as7716_32x_led_type_mode_data == DiagSomewhere(DiagRows(Mixed("AMBER")), {UNLISTED})
as7716_32x_leds == OneRegister("BLUE", as7716_32x_led_type_mode_data)
as7312_54x_led_type_mode_data == DiagSomewhere(DiagRows(Mixed("AMBER")), {UNLISTED})
as7312_54x_leds == OneRegister("AMBER", as7312_54x_led_type_mode_data)
as7326_56x_led_type_mode_data == DiagSomewhere(DiagRows(Mixed("AMBER")), {UNLISTED})
as7326_56x_leds == OneRegister("AMBER", as7326_56x_led_type_mode_data)
as7726_32x_led_type_mode_data == DiagSomewhere(DiagRows(<<>>), {})
as7726_32x_leds == OneRegister("BLUE", as7726_32x_led_type_mode_data)

\* The register functions are stubs: reads give 0 and writes go nowhere.
Stub(led) ==
  [led EXCEPT !.set = [m \in DOMAIN led.set |->
     {<<Lock, Get(Elsewhere, "abort"), Change(Elsewhere, {}, {}, FALSE), Clear, Unlock>>}]]

as7716_32xb_led_type_mode_data == DiagSomewhere(DiagRows(Mixed("AMBER")), {UNLISTED})
as7716_32xb_leds ==
  LET real == OneRegister("BLUE", as7716_32xb_led_type_mode_data)
  IN  [real EXCEPT !.files = [f \in DOMAIN real.files |-> Stub(real.files[f])]]

\* The number of ORANGE and of GREEN is above max_brightness of diag: the
\* kernel brings them down to RED.
as7712_32x_led_type_mode_data ==
  DiagSomewhere(DiagRows(Mixed("ORANGE")), {"ORANGE", "GREEN"})

\* The LEDs of the ports: a register each, which is read and written without
\* the lock and the cache.
Colors == <<"WHITE", "YELLOW", "ORANGE", "PURPLE", "CYAN", "RED", "GREEN", "BLUE">>
ColorBits(i) == {b + 2 : b \in {b \in 0..2 : ((i - 1) \div 2^b) % 2 = 1}}
port_led_mode_to_cpld_val ==
  [i \in 1..8 |-> Row(Colors[i], {0} \cup ColorBits(i))]
    \o [i \in 1..8 |-> Row(Colors[i] \o "_BLINKING", {0, 1} \cup ColorBits(i))]
    \o <<Row("OFF", {})>>

\* -EINVAL in a byte: what a number without a colour is written as.
EINVAL == {1, 3, 5, 6, 7}

PortLedBits(mode) ==
  LET i == CHOOSE j \in DOMAIN port_led_mode_to_cpld_val : port_led_mode_to_cpld_val[j].mode = mode
  IN  port_led_mode_to_cpld_val[i].bits

cpld_val_to_port_led_mode == [mask |-> 0..4, rows |-> port_led_mode_to_cpld_val, other |-> "OFF"]

port_led_set(cell, mode) ==
  IF mode = UNLISTED THEN <<Change(cell, AllBits, EINVAL, FALSE)>>
  ELSE <<Change(cell, AllBits, PortLedBits(mode), TRUE)>>

port_led(port, lid) ==
  LET cell == <<"port_led", 4 * port + lid>>
  IN  [shows |-> "mode", of |-> <<cell>>, watch |-> {cell}, from |-> "got", home |-> "chip",
       show |-> <<Get(cell, "errno"), Answer>>, mask |-> cpld_val_to_port_led_mode.mask,
       rows |-> cpld_val_to_port_led_mode.rows, other |-> cpld_val_to_port_led_mode.other,
       set |-> [m \in Settable(port_led_mode_to_cpld_val, {}) |-> {port_led_set(cell, m)}]]

as7712_32x_leds ==
  LET board == OneRegister("BLUE", as7712_32x_led_type_mode_data)
  IN  [board EXCEPT !.files = @ @@ (<<"port", 0>> :> port_led(0, 0))]

\* AS7816-64X has three LEDs in its register, and finds it.
as7816_64x_led_type_mode_data ==
  (<<"loc", 0>> :> Led(48, {4}, <<Row("OFF", {4}), Row("ORANGE", {})>>, "OFF", {}))
    @@ (<<"diag", 0>> :> Led(48, {0, 1}, DiagRows(Mixed("YELLOW")), "OFF", {}))
    @@ (<<"fan", 0>> :>
         Led(48, {2, 3}, <<Row("OFF", {2, 3}), Row("GREEN", {}), Row("GREEN", {3}),
                           Row("ORANGE", {2})>>, "OFF", {}))
as7816_64x_leds ==
  Driver(led_update(<<48>>), as7816_64x_led_type_mode_data)
=============================================================================
