----------------------------- MODULE PortTables -----------------------------
(***************************************************************************)
(* Which bit of which CPLD register each port file of the CPLD drivers      *)
(* stands for.  A port file is a kind of signal and a port number, as in    *)
(* module_reset_7.  For each driver there is the set of its port files, the *)
(* CPLD whose device holds the file, where a read looks, where a store      *)
(* writes, and which bits the files of all ports put in a line.  Every      *)
(* driver has its own tables, and nothing in the code ties the one a read   *)
(* uses to the one a store uses: CpldPorts checks that they agree.          *)
(***************************************************************************)
EXTENDS Integers, Sequences, FiniteSets

\* An enumeration of files: rows of one kind, from a first port to a last one.
Row(kind, first, last) == [kind |-> kind, first |-> first, last |-> last]

FilesOf(rows) ==
  UNION {[kind : {rows[i].kind}, port : rows[i].first..rows[i].last] : i \in DOMAIN rows}

\* The numbers of the files in their enumeration, from the first file of a
\* port on.
Numbers(rows) ==
  LET start[i \in DOMAIN rows] ==
        IF i = 1 THEN 0 ELSE start[i - 1] + rows[i - 1].last - rows[i - 1].first + 1
      RowOf(f) ==
        CHOOSE i \in DOMAIN rows :
          f.kind = rows[i].kind /\ f.port \in rows[i].first..rows[i].last
  IN  [f \in FilesOf(rows) |-> start[RowOf(f)] + f.port - rows[RowOf(f)].first]

File(kind, port) == [kind |-> kind, port |-> port]

At(dev, reg, bit) == [dev |-> dev, reg |-> reg, bit |-> bit]

\* Eight ports to a register, one after the other from register reg on: the
\* place of the n-th port of the row (n counts from 0).
InARow(dev, reg, n) == At(dev, reg + n \div 8, n % 8)

\* The eight bits of a register, in the order a line of the file of all
\* ports gives them, and the first n of them.
FirstBits(dev, reg, n) == [i \in 1..n |-> At(dev, reg, i - 1)]

-----------------------------------------------------------------------------
(* AS7312-54X: 48 SFP and 6 QSFP ports behind CPLD 2 and CPLD 3.            *)

as7312_54x_cpld_sysfs_attributes ==
  <<Row("present", 1, 54), Row("reset", 49, 54),
    Row("txdisable", 1, 48), Row("rxlos", 1, 48), Row("txfault", 1, 48)>>

as7312_54x_attributes == FilesOf(as7312_54x_cpld_sysfs_attributes)

as7312_54x_Index == Numbers(as7312_54x_cpld_sysfs_attributes)

as7312_54x_groups(p) == IF p \in (1..24) \cup (49..52) THEN "cpld2" ELSE "cpld3"

as7312_54x_show_status(f) ==
  LET dev == as7312_54x_groups(f.port)
      row == (f.port - 1) % 24
  IN  CASE f.kind = "present" /\ f.port <= 48 -> InARow(dev, 9, row)
        [] f.kind = "present" /\ f.port > 48  -> At(dev, 24, (f.port - 49) % 4)
        [] f.kind = "reset"     ->
             At(dev, 23, (as7312_54x_Index[f] - as7312_54x_Index[File("present", 49)]) % 4)
        [] f.kind = "txfault"   -> InARow(dev, 12, row)
        [] f.kind = "txdisable" -> InARow(dev, 15, row)
        [] f.kind = "rxlos"     -> InARow(dev, 18, row)

as7312_54x_set_reset(p) ==
  At(as7312_54x_groups(p), 23,
     (as7312_54x_Index[File("reset", p)] - as7312_54x_Index[File("reset", 49)]) % 4)

as7312_54x_set_tx_disable(p) == InARow(as7312_54x_groups(p), 15, (p - 1) % 24)

as7312_54x_show_present_all(dev) ==
  FirstBits(dev, 9, 8) \o FirstBits(dev, 10, 8) \o FirstBits(dev, 11, 8)
    \o FirstBits(dev, 24, IF dev = "cpld2" THEN 4 ELSE 2)

as7312_54x_show_rxlos_all(dev) ==
  FirstBits(dev, 18, 8) \o FirstBits(dev, 19, 8) \o FirstBits(dev, 20, 8)

-----------------------------------------------------------------------------
(* AS7326-56X: the SFP ports 1 to 48 and 57, 58, and 8 QSFP ports.          *)

as7326_56x_cpld_sysfs_attributes ==
  <<Row("present", 1, 58), Row("txdisable", 1, 48), Row("txdisable", 57, 58),
    Row("rxlos", 1, 48), Row("rxlos", 57, 58), Row("txfault", 1, 48), Row("txfault", 57, 58)>>

as7326_56x_attributes == FilesOf(as7326_56x_cpld_sysfs_attributes)

as7326_56x_groups(p) == IF p <= 30 THEN "cpld2" ELSE "cpld1"

\* Where a signal of an SFP port is: the registers of ports 1 to 30 start at
\* low, those of 31 to 48 at high, and 57 and 58 follow in the last of those.
as7326_56x_sfp(p, low, high) ==
  CASE p <= 30 -> InARow("cpld2", low, p - 1)
    [] p \in 31..48 -> InARow("cpld1", high, p - 31)
    [] p > 48 -> At("cpld1", high + 2, p - 57 + 2)

as7326_56x_show_status(f) ==
  CASE f.kind = "present" /\ f.port <= 30     -> InARow("cpld2", 15, f.port - 1)
    [] f.kind = "present" /\ f.port \in 31..48 -> InARow("cpld1", 16, f.port - 31)
    [] f.kind = "present" /\ f.port \in 57..58 -> At("cpld1", 18, 58 - f.port + 2)
    [] f.kind = "present" /\ f.port \in 49..56 -> At("cpld1", 19, f.port - 49)
    [] f.kind = "txfault"   -> as7326_56x_sfp(f.port, 3, 26)
    [] f.kind = "txdisable" -> as7326_56x_sfp(f.port, 7, 20)
    [] f.kind = "rxlos"     -> as7326_56x_sfp(f.port, 11, 23)

as7326_56x_set_tx_disable(p) == as7326_56x_sfp(p, 7, 20)

as7326_56x_show_present_all(dev) ==
  FirstBits(dev, 9, 8) \o FirstBits(dev, 10, 8) \o FirstBits(dev, 11, 8)
    \o FirstBits(dev, 24, IF dev = "cpld2" THEN 4 ELSE 2)

as7326_56x_show_rxlos_all(dev) ==
  FirstBits(dev, 18, 8) \o FirstBits(dev, 19, 8) \o FirstBits(dev, 20, 8)

-----------------------------------------------------------------------------
(* AS7726-32X: 32 QSFP ports and the SFP ports 33 and 34, all in CPLD 1.    *)

as7726_32x_cpld_sysfs_attributes ==
  <<Row("present", 1, 34), Row("txdisable", 33, 34), Row("rxlos", 33, 34), Row("reset", 1, 32)>>

as7726_32x_attributes == FilesOf(as7726_32x_cpld_sysfs_attributes)

as7726_32x_show_status(f) ==
  CASE f.kind = "present" /\ f.port <= 32 -> InARow("cpld1", 48, f.port - 1)
    [] f.kind = "present" /\ f.port > 32  -> At("cpld1", 80, f.port - 33)
    [] f.kind = "reset"     -> InARow("cpld1", 4, f.port - 1)
    [] f.kind = "rxlos"     -> At("cpld1", 80, f.port - 33 + 2)
    [] f.kind = "txdisable" -> At("cpld1", 73, f.port - 33)

as7726_32x_set_reset(p) == InARow("cpld1", 4, p - 1)

as7726_32x_set_tx_disable(p) == At("cpld1", 73, p - 33)

as7726_32x_show_present_all(dev) ==
  [i \in 1..32 |-> InARow(dev, 48, i - 1)] \o FirstBits(dev, 80, 2)

\* After four bytes of zeros.
as7726_32x_show_rxlos_all(dev) == [i \in 1..2 |-> At(dev, 80, i + 1)]

-----------------------------------------------------------------------------
(* AS7716-32X: 32 QSFP ports in CPLD 1.                                     *)

as7716_32x_cpld_sysfs_attributes == <<Row("present", 1, 32), Row("reset", 1, 32)>>

as7716_32x_attributes == FilesOf(as7716_32x_cpld_sysfs_attributes)

as7716_32x_show_present(p) == InARow("cpld1", 48, p - 1)

as7716_32x_get_mode_reset(p) == InARow("cpld1", 4, p - 1)

\* Mutant: the index of a file counts from 1, like the name of the port.
ResetOfTheNext(p) == InARow("cpld1", 4, p)

as7716_32x_set_mode_reset(p) == InARow("cpld1", 4, p - 1)

as7716_32x_show_present_all(dev) == [i \in 1..32 |-> InARow(dev, 48, i - 1)]

-----------------------------------------------------------------------------
(* AS7716-32XB: the present and reset files of a port show and set a cell   *)
(* of the driver's memory, one array per kind, written by drv_handler; only *)
(* the file of all ports reads the CPLD.                                    *)

as7716_32xb_cpld_sysfs_attributes == <<Row("present", 1, 32), Row("reset", 1, 32)>>

as7716_32xb_attributes == FilesOf(as7716_32xb_cpld_sysfs_attributes)

as7716_32xb_sfp_array_index_get(f) == f.port - 1

as7716_32xb_sfp_value_show(f) ==
  At(f.kind, as7716_32xb_sfp_array_index_get(f), 0)

as7716_32xb_sfp_value_store(f) ==
  At(f.kind, as7716_32xb_sfp_array_index_get(f), 0)

as7716_32xb_show_present_all(dev) == [i \in 1..32 |-> InARow(dev, 48, i - 1)]

-----------------------------------------------------------------------------
(* AS6712-32X: 16 QSFP ports behind each of CPLD 2 and CPLD 3.              *)

as6712_32x_cpld_sysfs_attributes == <<Row("present", 1, 32), Row("reset", 1, 32)>>

as6712_32x_attributes == FilesOf(as6712_32x_cpld_sysfs_attributes)

as6712_32x_Index == Numbers(as6712_32x_cpld_sysfs_attributes)

as6712_32x_groups(p) == IF p <= 16 THEN "cpld2" ELSE "cpld3"

\* The number of MODULE_PRESENT_1 is taken off that of a reset, here and in
\* the store.
as6712_32x_show_status(f) ==
  LET dev == as6712_32x_groups(f.port)
  IN  CASE f.kind = "present" -> InARow(dev, 10, (f.port - 1) % 16)
        [] f.kind = "reset" ->
             LET n == as6712_32x_Index[f] - as6712_32x_Index[File("present", 1)]
             IN  At(dev, 4 + ((n \div 8) % 2), n % 8)

as6712_32x_set_status(p) ==
  LET n == as6712_32x_Index[File("reset", p)] - as6712_32x_Index[File("present", 1)]
  IN  At(as6712_32x_groups(p), 4 + ((n \div 8) % 2), n % 8)

\* Mutant: the second register of the line is the first one again.
FirstRegisterTwice(dev) == FirstBits(dev, 10, 8) \o FirstBits(dev, 10, 8)

as6712_32x_show_present_all(dev) == FirstBits(dev, 10, 8) \o FirstBits(dev, 11, 8)

-----------------------------------------------------------------------------
(* The driver the boards share.  It makes the files from tables: port j of  *)
(* a model has the bit get_reg_bit counts from the first register of the    *)
(* kind; the files of the model are those of the ports get_sfp_spec gives.  *)

Models == {"cpld_as7712", "cpld_as7716", "cpld_as7816", "cpld_as7312"}

\* The case of AS7312_54X has no break and runs into the default.
get_sfp_spec(model) ==
  CASE model \in {"cpld_as7712", "cpld_as7716"} -> 32
    [] model = "cpld_as7816" -> 64
    [] model = "cpld_as7312" -> 0

\* The first register of module_present_n and of module_reset_n.
models_attr(model, kind) ==
  LET seventyseven == model \in {"cpld_as7712", "cpld_as7716"}
  IN  CASE kind = "present" /\ seventyseven  -> 48
        [] kind = "reset" /\ seventyseven    -> 4
        [] kind = "present" /\ ~seventyseven -> 112
        [] kind = "reset" /\ ~seventyseven   -> 64

get_reg_bit(first, j) == InARow("cpld1", first, j)

add_attributes_portly(model) ==
  FilesOf(<<Row("present", 1, get_sfp_spec(model)), Row("reset", 1, get_sfp_spec(model))>>)

common_show_bit(model, f) == get_reg_bit(models_attr(model, f.kind), f.port - 1)

\* The register of module_present_all is kept in a u8, so the -1 of AS7312 is
\* 255 and the test for a register below 0 never holds.  The registers are
\* read into an array of 6 bytes, which the 8 of AS7816 run past.
common_present_all_reg(model) == IF model = "cpld_as7312" THEN 255 ELSE 48

common_show_presnet_all(model, dev) ==
  [i \in 1..8 * ((get_sfp_spec(model) + 7) \div 8) |->
     InARow(dev, common_present_all_reg(model), i - 1)]

-----------------------------------------------------------------------------
(* The port device of AS7712-32X keeps its own lock and reaches the reset   *)
(* registers of CPLD 1 through the exported functions.                      *)

as7712_32x_sfp_attributes == FilesOf(<<Row("present", 1, 32), Row("reset", 1, 32)>>)

as7712_32x_sfp_show_present(p) == InARow("cpld1", 48, p - 1)

as7712_32x_sfp_show_port_reset(p) == InARow("cpld1", 4, p - 1)

as7712_32x_sfp_set_port_reset(p) == InARow("cpld1", 4, p - 1)
=============================================================================
