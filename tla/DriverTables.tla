----------------------------- MODULE DriverTables -----------------------------
(***************************************************************************)
(* What the drivers acquire and give back: for each driver the steps of its *)
(* init and probe in their order, what each step gives back when it fails   *)
(* (the labels its goto runs into), and the steps of its remove and exit.   *)
(*                                                                          *)
(* A step is named for what it acquires: "drv" and "pdev" are the driver    *)
(* and the platform device with the kernel, "data" the driver's allocation, *)
(* "ready" what is stored in the data before it can be used (the client's   *)
(* data pointer, the lock), "files" the attribute group, "bin" the binary   *)
(* file, "hwmon" the hwmon device, "client" the node of the list behind the *)
(* exported functions, "attrs" the array of the attributes, "mux" the       *)
(* adapters of the channels, "led1" and on the LEDs one by one.             *)
(***************************************************************************)
EXTENDS Sequences

\* Steps that store something and cannot fail.
Settings == {"ready"}

\* What a reader or a writer can reach a driver through.
Leds == {"led1", "led2"}
Ways == {"files", "bin", "client"} \cup Leds

-----------------------------------------------------------------------------
(* The shapes the drivers share.                                             *)

\* A driver of an i2c device; the module holds nothing but the driver.
I2c ==
  [init |-> <<"drv">>, initFails |-> [drv |-> <<>>], exit |-> <<"drv">>,
   uses |-> {"data", "ready"}]

With(shape, probe, probeFails, remove) ==
  [field \in {"init", "initFails", "exit", "uses", "probe", "probeFails", "remove"} |->
     CASE field = "probe" -> probe
       [] field = "probeFails" -> probeFails
       [] field = "remove" -> remove
       [] OTHER -> shape[field]]

\* Mutant: a failed hwmon registration jumps past the label that frees the data.
HwmonKeepsData ==
  With(I2c, <<"data", "ready", "files", "hwmon">>,
       [data |-> <<>>, files |-> <<"data">>, hwmon |-> <<"files">>],
       <<"hwmon", "files", "data">>)

\* Mutant: remove frees the data before the files are gone.
HwmonFreesEarly ==
  With(I2c, <<"data", "ready", "files", "hwmon">>,
       [data |-> <<>>, files |-> <<"data">>, hwmon |-> <<"files", "data">>],
       <<"hwmon", "data", "files">>)

Hwmon ==
  With(I2c, <<"data", "ready", "files", "hwmon">>,
       [data |-> <<>>, files |-> <<"data">>, hwmon |-> <<"files", "data">>],
       <<"hwmon", "files", "data">>)

HwmonClient ==
  [Hwmon EXCEPT !.probe = <<"data", "ready", "files", "hwmon", "client">>,
                !.remove = <<"hwmon", "files", "data", "client">>]

\* Mutant: a failed attribute group jumps to the label that removes it.
CpldRemovesFailed ==
  With(I2c, <<"data", "ready", "files", "client">>,
       [data |-> <<>>, files |-> <<"files", "data">>],
       <<"client", "files", "data">>)

Cpld ==
  With(I2c, <<"data", "ready", "files", "client">>,
       [data |-> <<>>, files |-> <<"data">>],
       <<"client", "files", "data">>)

\* A module that holds its data, and brings its own device.
Platform ==
  [init |-> <<"drv", "data", "ready", "pdev">>,
   initFails |-> [drv |-> <<>>, data |-> <<"drv">>, pdev |-> <<"drv", "data">>],
   exit |-> <<"pdev", "drv", "data">>,
   uses |-> {"data", "ready"}]

PlatformHwmon ==
  With(Platform, <<"files", "hwmon">>,
       [files |-> <<>>, hwmon |-> <<"files">>], <<"hwmon", "files">>)

\* The loop that undoes the registered LEDs gives back, once for each of
\* them, the LED whose registration has just failed.
PlatformLeds ==
  With(Platform, <<"led1", "led2">>,
       [led1 |-> <<>>, led2 |-> <<"led2">>], <<"led1", "led2">>)

-----------------------------------------------------------------------------
(* Fans.  Seven of the drivers do not free their data in remove.             *)

FanOfDevice == [Hwmon EXCEPT !.remove = <<"hwmon", "files">>]

accton_as5712_54x_fan == PlatformHwmon
accton_as5812_54t_fan == PlatformHwmon
accton_as6712_32x_fan == PlatformHwmon
as7312_54x_fan  == FanOfDevice
as7326_56x_fan  == FanOfDevice
as7712_32x_fan  == FanOfDevice
as7716_32x_fan  == FanOfDevice
as7716_32xb_fan == FanOfDevice
as7726_32x_fan  == FanOfDevice
as7816_64x_fan  == FanOfDevice

-----------------------------------------------------------------------------
(* Power supplies, and the rest of the hwmon devices.                        *)

as5712_54x_psu  == Hwmon
as5812_54t_psu  == Hwmon
as6712_32x_psu  == Hwmon
as7312_54x_psu  == Hwmon
as7326_56x_psu  == Hwmon
as7712_32x_psu  == Hwmon
as7716_32x_psu  == Hwmon
as7716_32xb_psu == Hwmon
as7726_32x_psu  == Hwmon
as7816_64x_psu  == Hwmon

as5712_54x_ym2651y == Hwmon
as5812_54t_ym2651y == Hwmon
as7716_32x_ym2651y == Hwmon
as7726_32x_ym2651y == Hwmon
common_ym2651y     == Hwmon

as5712_54x_cpr_4011_4mxx == Hwmon
as7716_32x_cpr_4011_4mxx == Hwmon
common_cpr_4011_4mxx     == Hwmon

as7716_32xb_thermal == Hwmon
as7716_32xb_oom     == Hwmon
as7716_32xb_pmbus   == Hwmon
as7716_32xb_sys     == Hwmon
as5812_54t_sfp      == Hwmon

\* The data is freed by the device core after remove or a failed probe; the
\* files come and go with the hwmon device.
accton_pmbus_3y ==
  [With(I2c, <<"data", "ready", "attrs", "files">>,
        [data |-> <<>>, attrs |-> <<"data">>, files |-> <<"attrs", "data">>],
        <<"files", "attrs", "data">>)
     EXCEPT !.uses = @ \cup {"attrs"}]

-----------------------------------------------------------------------------
(* CPLDs.                                                                    *)

as7312_54x_cpld  == Cpld
as7326_56x_cpld  == Cpld
as7726_32x_cpld  == Cpld
as7716_32x_cpld  == HwmonClient
as7716_32xb_cpld == HwmonClient

\* A version file and the exported functions: no data at all.
as5812_54t_accton_i2c_cpld ==
  [With(I2c, <<"files", "client">>, [files |-> <<>>], <<"files", "client">>)
     EXCEPT !.uses = {}]
as7716_32x_accton_i2c_cpld == as5812_54t_accton_i2c_cpld

\* The driver the boards share makes its attributes from tables.
\* Probe does not look at what becomes of the single attributes: when there is
\* no memory for some it goes on with the rest, which is a step that succeeds
\* with fewer files, and "attrs" fails when there is none.
common_accton_i2c_cpld ==
  [With(I2c, <<"data", "ready", "attrs", "files", "hwmon", "client">>,
        [data |-> <<>>, attrs |-> <<"data">>, files |-> <<"attrs", "data">>,
         hwmon |-> <<"files", "attrs", "data">>],
        <<"hwmon", "files", "attrs", "client", "data">>)
     EXCEPT !.uses = @ \cup {"attrs"}]

CpldMux ==
  With(I2c, <<"data", "ready", "mux", "files", "client">>,
       [data |-> <<>>, mux |-> <<"data">>, files |-> <<"mux", "data">>],
       <<"client", "files", "mux", "data">>)

as5712_54x_cpld_mux == CpldMux
as6712_32x_cpld_mux == CpldMux

-----------------------------------------------------------------------------
(* Modules in the ports.                                                     *)

\* A port has data of its own and that of the module in it.  The pointer from
\* the one to the other, which the files follow, is stored after the files
\* are there.
as7816_64x_sfp ==
  [With(I2c, <<"port", "buf", "data", "files", "bin", "ready">>,
        [port |-> <<>>, buf |-> <<"port">>, data |-> <<"buf", "port">>,
         files |-> <<"data", "buf", "port">>,
         bin |-> <<"files", "data", "buf", "port">>],
        <<"bin", "files", "data", "port">>)
     EXCEPT !.uses = @ \cup {"port", "buf"}]

\* Here nothing frees the data of the port.
as7712_32x_sfp ==
  [With(I2c, <<"port", "data", "files", "bin", "ready">>,
        [port |-> <<>>, data |-> <<>>, files |-> <<"data">>, bin |-> <<"files", "data">>],
        <<"bin", "files", "data">>)
     EXCEPT !.uses = @ \cup {"port"}]

\* The client's data pointer is stored last.  When the attribute group cannot
\* be made the binary file stays.
optoe ==
  [With(I2c, <<"data", "buf", "dummy", "bin", "files", "ready">>,
        [data |-> <<>>, buf |-> <<"data">>, dummy |-> <<"buf", "data">>,
         bin |-> <<"dummy", "buf", "data">>, files |-> <<"dummy", "buf", "data">>],
        <<"files", "bin", "dummy", "buf", "data">>)
     EXCEPT !.uses = @ \cup {"buf", "dummy"}]

-----------------------------------------------------------------------------
(* LEDs, and the sensors of the Wedge boards.                                *)

accton_as5712_54x_led == PlatformLeds
accton_as5812_54t_led == PlatformLeds
accton_as6712_32x_led == PlatformLeds
accton_as7312_54x_led == PlatformLeds
accton_as7326_56x_led == PlatformLeds
accton_as7712_32x_led == PlatformLeds
as7716_32x_led        == PlatformLeds
as7716_32xb_led       == PlatformLeds
accton_as7726_32x_led == PlatformLeds
as7816_64x_led        == PlatformLeds

\* The array grows attribute by attribute: FailsHalfway of DriverLifecycle.
accton_wedge100bf ==
  [With(Platform, <<"attrs", "files", "hwmon">>,
        [attrs |-> <<>>, files |-> <<"attrs">>, hwmon |-> <<"files", "attrs">>],
        <<"hwmon", "files", "attrs">>)
     EXCEPT !.uses = @ \cup {"attrs"}]

-----------------------------------------------------------------------------
Driver ==
  [accton_as5712_54x_fan |-> accton_as5712_54x_fan,
   accton_as5812_54t_fan |-> accton_as5812_54t_fan,
   accton_as6712_32x_fan |-> accton_as6712_32x_fan,
   as7312_54x_fan |-> as7312_54x_fan, as7326_56x_fan |-> as7326_56x_fan,
   as7712_32x_fan |-> as7712_32x_fan, as7716_32x_fan |-> as7716_32x_fan,
   as7716_32xb_fan |-> as7716_32xb_fan, as7726_32x_fan |-> as7726_32x_fan,
   as7816_64x_fan |-> as7816_64x_fan,
   as5712_54x_psu |-> as5712_54x_psu, as5812_54t_psu |-> as5812_54t_psu,
   as6712_32x_psu |-> as6712_32x_psu, as7312_54x_psu |-> as7312_54x_psu,
   as7326_56x_psu |-> as7326_56x_psu, as7712_32x_psu |-> as7712_32x_psu,
   as7716_32x_psu |-> as7716_32x_psu, as7716_32xb_psu |-> as7716_32xb_psu,
   as7726_32x_psu |-> as7726_32x_psu, as7816_64x_psu |-> as7816_64x_psu,
   as5712_54x_ym2651y |-> as5712_54x_ym2651y, as5812_54t_ym2651y |-> as5812_54t_ym2651y,
   as7716_32x_ym2651y |-> as7716_32x_ym2651y, as7726_32x_ym2651y |-> as7726_32x_ym2651y,
   common_ym2651y |-> common_ym2651y,
   as5712_54x_cpr_4011_4mxx |-> as5712_54x_cpr_4011_4mxx,
   as7716_32x_cpr_4011_4mxx |-> as7716_32x_cpr_4011_4mxx,
   common_cpr_4011_4mxx |-> common_cpr_4011_4mxx,
   as7716_32xb_thermal |-> as7716_32xb_thermal, as7716_32xb_oom |-> as7716_32xb_oom,
   as7716_32xb_pmbus |-> as7716_32xb_pmbus, as7716_32xb_sys |-> as7716_32xb_sys,
   as5812_54t_sfp |-> as5812_54t_sfp, accton_pmbus_3y |-> accton_pmbus_3y,
   as7312_54x_cpld |-> as7312_54x_cpld, as7326_56x_cpld |-> as7326_56x_cpld,
   as7726_32x_cpld |-> as7726_32x_cpld, as7716_32x_cpld |-> as7716_32x_cpld,
   as7716_32xb_cpld |-> as7716_32xb_cpld,
   as5812_54t_accton_i2c_cpld |-> as5812_54t_accton_i2c_cpld,
   as7716_32x_accton_i2c_cpld |-> as7716_32x_accton_i2c_cpld,
   common_accton_i2c_cpld |-> common_accton_i2c_cpld,
   as5712_54x_cpld_mux |-> as5712_54x_cpld_mux, as6712_32x_cpld_mux |-> as6712_32x_cpld_mux,
   as7816_64x_sfp |-> as7816_64x_sfp, as7712_32x_sfp |-> as7712_32x_sfp, optoe |-> optoe,
   accton_as5712_54x_led |-> accton_as5712_54x_led,
   accton_as5812_54t_led |-> accton_as5812_54t_led,
   accton_as6712_32x_led |-> accton_as6712_32x_led,
   accton_as7312_54x_led |-> accton_as7312_54x_led,
   accton_as7326_56x_led |-> accton_as7326_56x_led,
   accton_as7712_32x_led |-> accton_as7712_32x_led,
   as7716_32x_led |-> as7716_32x_led, as7716_32xb_led |-> as7716_32xb_led,
   accton_as7726_32x_led |-> accton_as7726_32x_led, as7816_64x_led |-> as7816_64x_led,
   accton_wedge100bf |-> accton_wedge100bf]
=============================================================================
