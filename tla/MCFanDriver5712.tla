--------------------------- MODULE MCFanDriver5712 ---------------------------
(* Two polling readers and one writer over a driver with two fans.          *)
EXTENDS FanDriver5712

CONSTANTS r1, r2, w1

MCReaders == {r1, r2}
MCWriters == {w1}
MCFans == {0, 1}

\* Healthy, or the front rotor of one fan and the rear rotor of the other.
MCHwFaults == {[fault |-> {}, r_fault |-> {}], [fault |-> {0}, r_fault |-> {1}]}

\* A duty that is not a multiple of the register's step, and one value on
\* either side of the range; the fans start at 0.
MCInputs == {-1, 43, 101}
=============================================================================
