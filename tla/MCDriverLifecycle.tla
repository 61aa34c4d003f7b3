--------------------------- MODULE MCDriverLifecycle ---------------------------
(***************************************************************************)
(* DriverLifecycle for every driver with two processes.  Every step may     *)
(* fail but the registration of an LED, which is a run of its own.          *)
(***************************************************************************)
EXTENDS DriverLifecycle

CONSTANTS p1, p2

ProcessDef == {p1, p2}
DriversDef == DOMAIN Driver
MayFailDef == Resource \ Leds
MayFailAll == Resource
=============================================================================
