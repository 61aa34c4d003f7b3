-------------------------- MODULE CpldPorts_proofs --------------------------
(***************************************************************************)
(* Proofs about CpldPorts, for any processes, ports and number of retries, *)
(* and every driver that looks at what its reads return.                    *)
(***************************************************************************)
EXTENDS CpldPorts, FiniteSetTheorems, SequenceTheorems, TLAPS

-----------------------------------------------------------------------------
(* The tables: which files share a bit, and where a show looks.              *)

\* A file of an enumeration is in one of its rows.
LEMMA FilesAre ==
  ASSUME NEW rows, NEW f \in FilesOf(rows)
  PROVE  \E i \in DOMAIN rows : /\ f = File(rows[i].kind, f.port)
                                /\ f.kind = rows[i].kind
                                /\ f.port \in rows[i].first..rows[i].last
<1>1. PICK i \in DOMAIN rows : f \in [kind : {rows[i].kind}, port : rows[i].first..rows[i].last]
  BY Zenon DEF FilesOf
<1>2. f.kind = rows[i].kind /\ f.port \in rows[i].first..rows[i].last /\ f = [kind |-> f.kind, port |-> f.port]
  BY <1>1
<1> QED
  BY <1>2, Zenon DEF File

\* The numbers of the first files of the rows follow from each other.
Starts(rows, g) ==
  [i \in DOMAIN rows |->
     IF i = 1 THEN 0 ELSE g[i - 1] + rows[i - 1].last - rows[i - 1].first + 1]

\* The number of a file that is in one row only, if the rows can be numbered.
LEMMA NumberIs ==
  ASSUME NEW rows, NEW w, w = Starts(rows, w), NEW f \in FilesOf(rows), NEW j \in DOMAIN rows,
         \A i \in DOMAIN rows :
           (f.kind = rows[i].kind /\ f.port \in rows[i].first..rows[i].last) <=> i = j
  PROVE  \E st : /\ st = Starts(rows, st)
                 /\ Numbers(rows)[f] = st[j] + f.port - rows[j].first
<1> DEFINE start[i \in DOMAIN rows] ==
             IF i = 1 THEN 0 ELSE start[i - 1] + rows[i - 1].last - rows[i - 1].first + 1
           RowOf(g) ==
             CHOOSE i \in DOMAIN rows :
               g.kind = rows[i].kind /\ g.port \in rows[i].first..rows[i].last
<1>1. Numbers(rows) = [g \in FilesOf(rows) |-> start[RowOf(g)] + g.port - rows[RowOf(g)].first]
  BY Zenon DEF Numbers
<1>2. start = CHOOSE g : g = Starts(rows, g)
  BY DEF Starts
<1> HIDE DEF start
<1>3. start = Starts(rows, start)
  BY <1>2, Zenon
<1>4. RowOf(f) = j
  BY Zenon
<1>5. Numbers(rows)[f] = start[j] + f.port - rows[j].first
  BY <1>1, <1>4
<1> QED
  BY <1>3, <1>5, Zenon

\* The numbers of the files whose registers are counted from them.
LEMMA Index7312 ==
  ASSUME NEW p \in 49..54
  PROVE  as7312_54x_Index[File("reset", p)] = p + 5
<1> DEFINE rows == as7312_54x_cpld_sysfs_attributes
           w == [i \in DOMAIN rows |-> <<0, 54, 60, 108, 156>>[i]]
           f == File("reset", p)
<1>1. DOMAIN rows = 1..5
  BY DEF as7312_54x_cpld_sysfs_attributes
<1>2. w = Starts(rows, w)
  <2>1. ASSUME NEW i \in 1..5
        PROVE  w[i] = IF i = 1 THEN 0 ELSE w[i - 1] + rows[i - 1].last - rows[i - 1].first + 1
    BY <1>1, <2>1 DEF as7312_54x_cpld_sysfs_attributes, Row
  <2> QED
    BY <1>1, <2>1 DEF Starts
<1>3. f.kind = "reset" /\ f.port = p
  BY DEF File
<1>4. \A i \in DOMAIN rows :
        (f.kind = rows[i].kind /\ f.port \in rows[i].first..rows[i].last) <=> i = 2
  BY <1>1, <1>3 DEF as7312_54x_cpld_sysfs_attributes, Row
<1>5. f \in FilesOf(rows)
  <2>1. f \in [kind : {rows[2].kind}, port : rows[2].first..rows[2].last]
    BY DEF as7312_54x_cpld_sysfs_attributes, Row, File
  <2> QED
    BY <1>1, <2>1 DEF FilesOf
<1>6. PICK st : st = Starts(rows, st) /\ Numbers(rows)[f] = st[2] + f.port - rows[2].first
  <2> HIDE DEF rows, w, f
  <2> QED
    BY <1>1, <1>2, <1>4, <1>5, NumberIs
<1>7. st[2] = 54
  BY <1>1, <1>6 DEF Starts, as7312_54x_cpld_sysfs_attributes, Row
<1> QED
  BY <1>3, <1>6, <1>7 DEF as7312_54x_Index, as7312_54x_cpld_sysfs_attributes, Row

LEMMA Index6712 ==
  ASSUME NEW p \in 1..32
  PROVE  /\ as6712_32x_Index[File("reset", p)] = p + 31
         /\ as6712_32x_Index[File("present", p)] = p - 1
<1> DEFINE rows == as6712_32x_cpld_sysfs_attributes
           w == [i \in DOMAIN rows |-> <<0, 32>>[i]]
<1>1. DOMAIN rows = 1..2
  BY DEF as6712_32x_cpld_sysfs_attributes
<1>2. w = Starts(rows, w)
  <2>1. ASSUME NEW i \in 1..2
        PROVE  w[i] = IF i = 1 THEN 0 ELSE w[i - 1] + rows[i - 1].last - rows[i - 1].first + 1
    BY <1>1, <2>1 DEF as6712_32x_cpld_sysfs_attributes, Row
  <2> QED
    BY <1>1, <2>1 DEF Starts
<1>3. ASSUME NEW j \in 1..2, NEW f, f = File(rows[j].kind, p)
      PROVE  as6712_32x_Index[f] = p + (IF j = 1 THEN -1 ELSE 31)
  <2>1. f.kind = rows[j].kind /\ f.port = p
    BY <1>3 DEF File
  <2>2. \A i \in DOMAIN rows :
          (f.kind = rows[i].kind /\ f.port \in rows[i].first..rows[i].last) <=> i = j
    BY <1>1, <2>1 DEF as6712_32x_cpld_sysfs_attributes, Row
  <2>3. f \in FilesOf(rows)
    <3>1. f \in [kind : {rows[j].kind}, port : rows[j].first..rows[j].last]
      BY <1>3 DEF as6712_32x_cpld_sysfs_attributes, Row, File
    <3> QED
      BY <1>1, <3>1 DEF FilesOf
  <2>4. PICK st : st = Starts(rows, st) /\ Numbers(rows)[f] = st[j] + f.port - rows[j].first
    <3> HIDE DEF rows, w
    <3> QED
      BY <1>1, <1>2, <2>2, <2>3, NumberIs
  <2>5. st[1] = 0 /\ st[2] = 32
    BY <1>1, <2>4 DEF Starts, as6712_32x_cpld_sysfs_attributes, Row
  <2> QED
    BY <2>1, <2>4, <2>5 DEF as6712_32x_Index, as6712_32x_cpld_sysfs_attributes, Row
<1>4. rows[1].kind = "present" /\ rows[2].kind = "reset"
  BY DEF as6712_32x_cpld_sysfs_attributes, Row
<1> QED
  BY <1>3, <1>4

\* Two ports of a row of registers have different bits.
LEMMA RowsApart ==
  ASSUME NEW dev, NEW reg \in Int, NEW n \in Nat, NEW m \in Nat,
         InARow(dev, reg, n) = InARow(dev, reg, m)
  PROVE  n = m
<1>1. reg + (n \div 8) = reg + (m \div 8) /\ n % 8 = m % 8
  BY DEF InARow, At
<1>2. n = 8 * (n \div 8) + (n % 8) /\ m = 8 * (m \div 8) + (m % 8)
  BY SMTT(30)
<1>3. n \div 8 \in Int /\ m \div 8 \in Int
  OBVIOUS
<1> QED
  BY <1>1, <1>2, <1>3

\* A writable file of a careful driver is what its kind and its port say.
LEMMA WritableFiles ==
  ASSUME NEW d, Careful(d), NEW f \in attributes(d), Writable(d, f)
  PROVE  /\ f = File(f.kind, f.port) /\ f.port \in Nat
         /\ d = "as7312_54x" =>
              (f.kind = "reset" /\ f.port \in 49..54) \/ (f.kind = "txdisable" /\ f.port \in 1..48)
         /\ d = "as7326_56x" => f.kind = "txdisable" /\ f.port \in (1..48) \cup (57..58)
         /\ d = "as7726_32x" =>
              (f.kind = "reset" /\ f.port \in 1..32) \/ (f.kind = "txdisable" /\ f.port \in 33..34)
         /\ d \in {"as7716_32x", "as6712_32x"} => f.kind = "reset" /\ f.port \in 1..32
         /\ d = "as7716_32xb" => f.kind \in {"present", "reset"} /\ f.port \in 1..32
<1>1. CASE d = "as7312_54x"
  <2>1. f \in FilesOf(as7312_54x_cpld_sysfs_attributes)
    BY <1>1, Zenon DEF attributes, Models, as7312_54x_attributes
  <2> QED
    BY <1>1, <2>1, FilesAre DEF as7312_54x_cpld_sysfs_attributes, Row, Writable
<1>2. CASE d = "as7326_56x"
  <2>1. f \in FilesOf(as7326_56x_cpld_sysfs_attributes)
    BY <1>2, Zenon DEF attributes, Models, as7326_56x_attributes
  <2> QED
    BY <1>2, <2>1, FilesAre DEF as7326_56x_cpld_sysfs_attributes, Row, Writable
<1>3. CASE d = "as7726_32x"
  <2>1. f \in FilesOf(as7726_32x_cpld_sysfs_attributes)
    BY <1>3, Zenon DEF attributes, Models, as7726_32x_attributes
  <2> QED
    BY <1>3, <2>1, FilesAre DEF as7726_32x_cpld_sysfs_attributes, Row, Writable
<1>4. CASE d = "as7716_32x"
  <2>1. f \in FilesOf(as7716_32x_cpld_sysfs_attributes)
    BY <1>4, Zenon DEF attributes, Models, as7716_32x_attributes
  <2> QED
    BY <1>4, <2>1, FilesAre DEF as7716_32x_cpld_sysfs_attributes, Row, Writable
<1>5. CASE d = "as7716_32xb"
  <2>1. f \in FilesOf(as7716_32xb_cpld_sysfs_attributes)
    BY <1>5, Zenon DEF attributes, Models, as7716_32xb_attributes
  <2> QED
    BY <1>5, <2>1, FilesAre DEF as7716_32xb_cpld_sysfs_attributes, Row, Writable
<1>6. CASE d = "as6712_32x"
  <2>1. f \in FilesOf(as6712_32x_cpld_sysfs_attributes)
    BY <1>6, Zenon DEF attributes, Models, as6712_32x_attributes
  <2> QED
    BY <1>6, <2>1, FilesAre DEF as6712_32x_cpld_sysfs_attributes, Row, Writable
<1> QED
  BY <1>1, <1>2, <1>3, <1>4, <1>5, <1>6 DEF Careful, CpldDrivers

\* Two files of a careful driver are not stored in one bit.
LEMMA OneFileOneBit ==
  ASSUME NEW d, Careful(d), NEW f \in attributes(d), Writable(d, f),
         NEW g \in attributes(d), Writable(d, g), StoredAt(d, f) = StoredAt(d, g)
  PROVE  f = g
<1> USE WritableFiles
<1>1. f = File(f.kind, f.port) /\ g = File(g.kind, g.port) /\ f.port \in Nat /\ g.port \in Nat
  OBVIOUS
<1> SUFFICES f.kind = g.kind /\ f.port = g.port
  BY <1>1, Zenon
<1>2. CASE d = "as7312_54x"
  <2>1. /\ f.kind = "reset" => StoredAt(d, f) = At(as7312_54x_groups(f.port), 23, (f.port - 49) % 4)
        /\ g.kind = "reset" => StoredAt(d, g) = At(as7312_54x_groups(g.port), 23, (g.port - 49) % 4)
    <3>1. ASSUME NEW h, h \in {f, g}, h.kind = "reset"
          PROVE  StoredAt(d, h) = At(as7312_54x_groups(h.port), 23, (h.port - 49) % 4)
      <4>1. StoredAt(d, h) = as7312_54x_set_reset(h.port)
        BY <1>2, <3>1, Zenon DEF StoredAt, Models
      <4>2. h.port \in 49..54
        BY <1>2, <3>1
      <4>3. as7312_54x_Index[File("reset", h.port)] = h.port + 5
        BY <4>2, Index7312
      <4>4. as7312_54x_Index[File("reset", 49)] = 54
        BY Index7312
      <4>5. as7312_54x_Index[File("reset", h.port)] - as7312_54x_Index[File("reset", 49)] = h.port - 49
        BY <4>2, <4>3, <4>4
      <4> QED
        BY <4>1, <4>5, Zenon DEF as7312_54x_set_reset
    <3> QED
      BY <3>1, Zenon
  <2>2. /\ f.kind = "txdisable" => StoredAt(d, f) = InARow(as7312_54x_groups(f.port), 15, (f.port - 1) % 24)
        /\ g.kind = "txdisable" => StoredAt(d, g) = InARow(as7312_54x_groups(g.port), 15, (g.port - 1) % 24)
    BY <1>2, Zenon DEF StoredAt, Models, as7312_54x_set_tx_disable
  <2>3. CASE f.kind = "reset" /\ g.kind = "reset"
    BY <1>2, <2>1, <2>3 DEF At, as7312_54x_groups
  <2>4. CASE f.kind = "txdisable" /\ g.kind = "txdisable"
    <3>1. /\ as7312_54x_groups(f.port) = as7312_54x_groups(g.port)
          /\ InARow("cpld2", 15, (f.port - 1) % 24) = InARow("cpld2", 15, (g.port - 1) % 24)
      BY <2>2, <2>4 DEF At, InARow
    <3>2. (f.port - 1) % 24 = (g.port - 1) % 24
      BY <1>1, <3>1, RowsApart
    <3>3. \A p \in 1..48 : (p - 1) % 24 = IF as7312_54x_groups(p) = "cpld2" THEN p - 1 ELSE p - 25
      BY DEF as7312_54x_groups
    <3>4. f.port \in 1..48 /\ g.port \in 1..48
      BY <1>2, <2>4
    <3>5. /\ (f.port - 1) % 24 = IF as7312_54x_groups(f.port) = "cpld2" THEN f.port - 1 ELSE f.port - 25
          /\ (g.port - 1) % 24 = IF as7312_54x_groups(g.port) = "cpld2" THEN g.port - 1 ELSE g.port - 25
      BY <3>3, <3>4, Zenon
    <3>6. f.port = g.port
      BY <3>1, <3>2, <3>4, <3>5
    <3> QED
      BY <2>4, <3>6
  <2>5. ASSUME NEW h, h \in {f, g}, NEW k, k \in {f, g}, h.kind = "reset", k.kind = "txdisable"
        PROVE  StoredAt(d, h) # StoredAt(d, k)
    BY <1>2, <2>1, <2>2, <2>5 DEF At, InARow
  <2> QED
    BY <1>2, <2>3, <2>4, <2>5
<1>3. CASE d = "as7326_56x"
  <2>1. /\ f.kind = g.kind
        /\ f.port \in (1..48) \cup (57..58) /\ g.port \in (1..48) \cup (57..58)
    BY <1>3
  <2>2. as7326_56x_sfp(f.port, 7, 20) = as7326_56x_sfp(g.port, 7, 20)
    BY <1>3, Zenon DEF StoredAt, Models, as7326_56x_set_tx_disable
  <2>3. ASSUME NEW p \in (1..48) \cup (57..58)
        PROVE  as7326_56x_sfp(p, 7, 20) =
                 IF p <= 30 THEN InARow("cpld2", 7, p - 1)
                 ELSE InARow("cpld1", 20, IF p <= 48 THEN p - 31 ELSE p - 39)
    BY <2>3 DEF as7326_56x_sfp, InARow
  <2>4. CASE f.port <= 30
    <3>1. g.port <= 30
      BY <2>1, <2>2, <2>3, <2>4 DEF InARow, At
    <3>2. InARow("cpld2", 7, f.port - 1) = InARow("cpld2", 7, g.port - 1)
      BY <2>1, <2>2, <2>3, <2>4, <3>1
    <3>3. f.port - 1 = g.port - 1
      BY <2>1, <3>2, RowsApart
    <3> QED
      BY <2>1, <3>3
  <2>5. CASE f.port > 30
    <3> DEFINE n(p) == IF p <= 48 THEN p - 31 ELSE p - 39
    <3>1. g.port > 30
      BY <2>1, <2>2, <2>3, <2>5 DEF InARow, At
    <3>2. InARow("cpld1", 20, n(f.port)) = InARow("cpld1", 20, n(g.port))
      BY <2>1, <2>2, <2>3, <2>5, <3>1
    <3>3. n(f.port) \in Nat /\ n(g.port) \in Nat
      BY <2>1, <2>5, <3>1
    <3>4. n(f.port) = n(g.port)
      <4> HIDE DEF n
      <4> QED
        BY <3>2, <3>3, RowsApart
    <3> QED
      BY <2>1, <2>5, <3>1, <3>4
  <2> QED
    BY <2>1, <2>4, <2>5
<1>4. CASE d = "as7726_32x"
  <2>1. ASSUME NEW h, h \in {f, g}
        PROVE  \/ /\ h.kind = "reset" /\ h.port \in 1..32
                  /\ StoredAt(d, h) = InARow("cpld1", 4, h.port - 1)
               \/ /\ h.kind = "txdisable" /\ h.port \in 33..34
                  /\ StoredAt(d, h) = At("cpld1", 73, h.port - 33)
    <3>1. /\ h.kind = "reset" => StoredAt(d, h) = InARow("cpld1", 4, h.port - 1)
          /\ h.kind = "txdisable" => StoredAt(d, h) = At("cpld1", 73, h.port - 33)
      BY <1>4, <2>1, Zenon DEF StoredAt, Models, as7726_32x_set_reset, as7726_32x_set_tx_disable
    <3> QED
      BY <1>4, <2>1, <3>1
  <2>2. f.kind = g.kind
    BY <2>1 DEF InARow, At
  <2>3. CASE f.kind = "reset"
    <3>1. InARow("cpld1", 4, f.port - 1) = InARow("cpld1", 4, g.port - 1)
      BY <2>1, <2>2, <2>3
    <3>2. f.port - 1 \in Nat /\ g.port - 1 \in Nat
      BY <2>1, <2>2, <2>3
    <3>3. f.port - 1 = g.port - 1
      BY <3>1, <3>2, RowsApart
    <3> QED
      BY <1>1, <2>2, <3>3
  <2>4. CASE f.kind = "txdisable"
    <3>1. At("cpld1", 73, f.port - 33) = At("cpld1", 73, g.port - 33)
      BY <2>1, <2>2, <2>4
    <3>2. f.port - 33 = g.port - 33
      BY <3>1, Zenon DEF At
    <3> QED
      BY <1>1, <2>2, <3>2
  <2> QED
    BY <2>1, <2>3, <2>4
<1>5. CASE d = "as7716_32x"
  <2>1. InARow("cpld1", 4, f.port - 1) = InARow("cpld1", 4, g.port - 1)
    BY <1>5, Zenon DEF StoredAt, Models, as7716_32x_set_mode_reset
  <2>2. f.port - 1 \in Nat /\ g.port - 1 \in Nat
    BY <1>5
  <2>3. f.port - 1 = g.port - 1
    BY <2>1, <2>2, RowsApart
  <2> QED
    BY <1>1, <1>5, <2>3
<1>6. CASE d = "as7716_32xb"
  <2>1. At(f.kind, f.port - 1, 0) = At(g.kind, g.port - 1, 0)
    BY <1>6, Zenon DEF StoredAt, Models, as7716_32xb_sfp_value_store,
                       as7716_32xb_sfp_array_index_get
  <2> QED
    BY <1>1, <2>1 DEF At
<1>7. CASE d = "as6712_32x"
  <2>1. f.kind = "reset" /\ g.kind = "reset" /\ f.port \in 1..32 /\ g.port \in 1..32
    BY <1>7
  <2>2. ASSUME NEW h, h \in {f, g}
        PROVE  StoredAt(d, h) = At(as6712_32x_groups(h.port), 4 + (((h.port + 31) \div 8) % 2),
                                   (h.port + 31) % 8)
    <3>1. StoredAt(d, h) = as6712_32x_set_status(h.port)
      BY <1>7, Zenon DEF StoredAt, Models
    <3>2. h.port \in 1..32
      BY <2>1, <2>2
    <3>3. as6712_32x_Index[File("reset", h.port)] - as6712_32x_Index[File("present", 1)] = h.port + 31
      <4>1. as6712_32x_Index[File("reset", h.port)] = h.port + 31
        BY <3>2, Index6712
      <4>2. as6712_32x_Index[File("present", 1)] = 0
        BY Index6712
      <4> QED
        BY <3>2, <4>1, <4>2
    <3> QED
      BY <3>1, <3>3, Zenon DEF as6712_32x_set_status
  <2>3. /\ as6712_32x_groups(f.port) = as6712_32x_groups(g.port)
        /\ ((f.port + 31) \div 8) % 2 = ((g.port + 31) \div 8) % 2
        /\ (f.port + 31) % 8 = (g.port + 31) % 8
    BY <2>1, <2>2 DEF At
  <2>4. f.port = g.port
    BY <2>1, <2>3 DEF as6712_32x_groups
  <2> QED
    BY <2>1, <2>4
<1> QED
  BY <1>2, <1>3, <1>4, <1>5, <1>6, <1>7 DEF Careful, CpldDrivers

\* A show reads the bit a store writes, and inverts it when the store does,
\* but for the resets of AS7312-54X and AS7726-32X.
LEMMA ShownWhereStored ==
  ASSUME NEW d, Careful(d), NEW f \in attributes(d), Writable(d, f),
         ~(d \in {"as7312_54x", "as7726_32x"} /\ f.kind = "reset")
  PROVE  ShownAt(d, f) = StoredAt(d, f) /\ (ShowInverts(d, f) <=> StoreInverts(d, f))
<1> USE WritableFiles
<1>1. CASE d = "as7312_54x"
  <2>1. f.kind = "txdisable"
    BY <1>1
  <2>2. ShownAt(d, f) = as7312_54x_show_status(f) /\ StoredAt(d, f) = as7312_54x_set_tx_disable(f.port)
    BY <1>1, <2>1, Zenon DEF ShownAt, StoredAt, Models
  <2>3. as7312_54x_show_status(f) = InARow(as7312_54x_groups(f.port), 15, (f.port - 1) % 24)
    BY <2>1, Zenon DEF as7312_54x_show_status
  <2> QED
    BY <1>1, <2>1, <2>2, <2>3, Zenon DEF as7312_54x_set_tx_disable, ShowInverts, StoreInverts, Models
<1>2. CASE d = "as7326_56x"
  <2>1. f.kind = "txdisable"
    BY <1>2
  <2>2. /\ ShownAt(d, f) = as7326_56x_show_status(f)
        /\ StoredAt(d, f) = as7326_56x_set_tx_disable(f.port)
    BY <1>2, <2>1, Zenon DEF ShownAt, StoredAt, Models
  <2>3. as7326_56x_show_status(f) = as7326_56x_sfp(f.port, 7, 20)
    BY <2>1, Zenon DEF as7326_56x_show_status
  <2> QED
    BY <1>2, <2>1, <2>2, <2>3, Zenon DEF as7326_56x_set_tx_disable, ShowInverts, StoreInverts, Models
<1>3. CASE d = "as7726_32x"
  <2>1. f.kind = "txdisable"
    BY <1>3
  <2>2. /\ ShownAt(d, f) = as7726_32x_show_status(f)
        /\ StoredAt(d, f) = as7726_32x_set_tx_disable(f.port)
    BY <1>3, <2>1, Zenon DEF ShownAt, StoredAt, Models
  <2>3. as7726_32x_show_status(f) = At("cpld1", 73, f.port - 33)
    BY <2>1, Zenon DEF as7726_32x_show_status
  <2> QED
    BY <1>3, <2>1, <2>2, <2>3, Zenon DEF as7726_32x_set_tx_disable, ShowInverts, StoreInverts, Models
<1>4. CASE d = "as7716_32x"
  <2>1. f.kind = "reset"
    BY <1>4
  <2>2. /\ ShownAt(d, f) = as7716_32x_get_mode_reset(f.port)
        /\ StoredAt(d, f) = as7716_32x_set_mode_reset(f.port)
    BY <1>4, <2>1, Zenon DEF ShownAt, StoredAt, Models
  <2> QED
    BY <1>4, <2>1, <2>2, Zenon DEF as7716_32x_get_mode_reset, as7716_32x_set_mode_reset,
                                   ShowInverts, StoreInverts
<1>5. CASE d = "as7716_32xb"
  BY <1>5, Zenon DEF ShownAt, StoredAt, as7716_32xb_sfp_value_show, as7716_32xb_sfp_value_store,
                     ShowInverts, StoreInverts, Models
<1>6. CASE d = "as6712_32x"
  <2>1. f.kind = "reset" /\ f = File("reset", f.port)
    BY <1>6
  <2>2. /\ ShownAt(d, f) = as6712_32x_show_status(f)
        /\ StoredAt(d, f) = as6712_32x_set_status(f.port)
    BY <1>6, <2>1, Zenon DEF ShownAt, StoredAt, Models
  <2>3. as6712_32x_show_status(f) = as6712_32x_set_status(f.port)
    BY <2>1, Zenon DEF as6712_32x_show_status, as6712_32x_set_status
  <2> QED
    BY <1>6, <2>1, <2>2, <2>3, Zenon DEF ShowInverts, StoreInverts
<1> QED
  BY <1>1, <1>2, <1>3, <1>4, <1>5, <1>6 DEF Careful, CpldDrivers

\* Where a store of a careful driver writes is a bit of a register of a
\* device; a cell of the memory of AS7716-32XB has one bit.
LEMMA StoredAtBit ==
  ASSUME NEW d, Careful(d), NEW f \in attributes(d), Writable(d, f)
  PROVE  /\ \E dev, reg, bit : StoredAt(d, f) = At(dev, reg, bit)
         /\ d = "as7716_32xb" => StoredAt(d, f).bit = 0
<1>1. CASE d = "as7312_54x"
  <2>1. CASE f.kind = "reset"
    BY <1>1, <2>1, Zenon DEF StoredAt, Models, as7312_54x_set_reset
  <2>2. CASE f.kind = "txdisable"
    BY <1>1, <2>2, Zenon DEF StoredAt, Models, as7312_54x_set_tx_disable, InARow
  <2> QED
    BY <1>1, <2>1, <2>2 DEF Writable
<1>2. CASE d = "as7326_56x"
  <2>1. f.port \in Int
    BY <1>2, WritableFiles
  <2>2. StoredAt(d, f) = as7326_56x_sfp(f.port, 7, 20)
    BY <1>2, Zenon DEF StoredAt, Models, as7326_56x_set_tx_disable
  <2>3. CASE f.port <= 30
    <3>1. as7326_56x_sfp(f.port, 7, 20) = InARow("cpld2", 7, f.port - 1)
      BY <2>1, <2>3 DEF as7326_56x_sfp
    <3> QED
      BY <1>2, <2>2, <3>1, Zenon DEF InARow
  <2>4. CASE f.port \in 31..48
    <3>1. as7326_56x_sfp(f.port, 7, 20) = InARow("cpld1", 20, f.port - 31)
      BY <2>1, <2>4 DEF as7326_56x_sfp
    <3> QED
      BY <1>2, <2>2, <3>1, Zenon DEF InARow
  <2>5. CASE f.port > 48
    <3>1. as7326_56x_sfp(f.port, 7, 20) = At("cpld1", 20 + 2, f.port - 57 + 2)
      BY <2>1, <2>5 DEF as7326_56x_sfp
    <3> QED
      BY <1>2, <2>2, <3>1, Zenon
  <2> QED
    BY <2>1, <2>3, <2>4, <2>5, SMT
<1>3. CASE d = "as7726_32x"
  <2>1. CASE f.kind = "reset"
    BY <1>3, <2>1, Zenon DEF StoredAt, Models, as7726_32x_set_reset, InARow
  <2>2. CASE f.kind = "txdisable"
    BY <1>3, <2>2, Zenon DEF StoredAt, Models, as7726_32x_set_tx_disable
  <2> QED
    BY <1>3, <2>1, <2>2 DEF Writable
<1>4. CASE d = "as7716_32x"
  BY <1>4, Zenon DEF StoredAt, Models, as7716_32x_set_mode_reset, InARow
<1>5. CASE d = "as7716_32xb"
  <2>1. StoredAt(d, f) = At(f.kind, as7716_32xb_sfp_array_index_get(f), 0)
    BY <1>5, Zenon DEF StoredAt, Models, as7716_32xb_sfp_value_store
  <2>2. \A reg : At(f.kind, reg, 0).bit = 0
    BY DEF At
  <2> QED
    BY <2>1, <2>2, Zenon
<1>6. CASE d = "as6712_32x"
  BY <1>6, Zenon DEF StoredAt, Models, as6712_32x_set_status
<1> QED
  BY <1>1, <1>2, <1>3, <1>4, <1>5, <1>6 DEF Careful, CpldDrivers

\* Two files of one register have one lock.
LEMMA PlaceHasLock ==
  ASSUME NEW d, Careful(d), NEW f, NEW g,
         Place(StoredAt(d, f)) = Place(StoredAt(d, g))
  PROVE  SameLock(d, f, g)
<1>1. StoredAt(d, f).dev = StoredAt(d, g).dev
  BY DEF Place
<1>2. d # "as7712_32x_sfp"
  BY DEF Careful, CpldDrivers
<1> QED
  BY <1>1, <1>2, Zenon DEF SameLock

\* The register of a store is that of its file, and its files are what they are.
LEMMA StoresPlace ==
  ASSUME FileInv, Careful(drv), NEW p \in Actor
  PROVE  /\ Place(Stores(p)) \in DOMAIN chip
         /\ Stores(p) = At(Place(Stores(p)).dev, Place(Stores(p)).reg, Stores(p).bit)
         /\ drv = "as7716_32xb" => Stores(p).bit = 0
<1>1. file[p] \in attributes(drv) /\ Writable(drv, file[p]) /\ file[p] \in OpenFiles
  BY DEF FileInv, OpenFiles
<1>2. Place(Stores(p)) \in Places(drv, OpenFiles)
  <2>1. Place(Stores(p)) \in {Place(ShownAt(drv, file[p])), Place(StoredAt(drv, file[p]))}
    BY Zenon DEF Stores
  <2> QED
    BY <1>1, <2>1, Zenon DEF Places
<1>3. PICK dev, reg, bit : Stores(p) = At(dev, reg, bit)
  BY <1>1, StoredAtBit, Zenon DEF Stores
<1>4. Stores(p).dev = dev /\ Stores(p).reg = reg /\ Stores(p).bit = bit
  BY <1>3 DEF At
<1>5. Place(Stores(p)).dev = dev /\ Place(Stores(p)).reg = reg
  BY <1>4 DEF Place
<1> QED
  BY <1>1, <1>2, <1>3, <1>4, <1>5, StoredAtBit, Zenon DEF FileInv, Stores

LEMMA LockBothWays ==
  ASSUME NEW d, Careful(d), NEW f, NEW g, SameLock(d, f, g)
  PROVE  SameLock(d, g, f)
<1>1. CASE d = "as7716_32xb"
  BY <1>1, Zenon DEF SameLock
<1>2. CASE d # "as7716_32xb"
  <2>1. d # "as7712_32x_sfp"
    BY DEF Careful, CpldDrivers
  <2>2. StoredAt(d, f).dev = StoredAt(d, g).dev
    BY <1>2, <2>1, Zenon DEF SameLock
  <2> QED
    BY <1>2, <2>1, <2>2, Zenon DEF SameLock
<1> QED
  BY <1>1, <1>2

\* Two processes that read or write are at different registers.
LEMMA OwnRegister ==
  ASSUME LockInv, Careful(drv), NEW p \in Actor, NEW q \in Actor, p # q,
         pc[p] \in {"read", "write"}, pc[q] \in {"read", "write"}
  PROVE  Place(Stores(p)) # Place(Stores(q))
BY PlaceHasLock, Zenon DEF LockInv, Stores

\* What a write puts in its register, and that it changes one bit of it.
LEMMA NewByteIs ==
  ASSUME NEW p \in Actor, op[p] = "store"
  PROVE  NewByte(p) \in {seen[p] \cup {Stores(p).bit}, seen[p] \ {Stores(p).bit}}
<1>1. BitOf(want[p], StoreInverts(drv, file[p])) \in BOOLEAN
  BY Zenon DEF BitOf
<1>2. CASE BitOf(want[p], StoreInverts(drv, file[p]))
  BY <1>2, Zenon DEF NewByte
<1>3. CASE ~BitOf(want[p], StoreInverts(drv, file[p]))
  BY <1>3, Zenon DEF NewByte
<1> QED
  BY <1>2, <1>3

LEMMA OneBit ==
  ASSUME FileInv, SeenInv, Careful(drv), NEW p \in Actor, pc[p] = "write", op[p] = "store"
  PROVE  NewByte(p) \ {Stores(p).bit} = chip[Place(Stores(p))] \ {Stores(p).bit}
<1>1. chip[Place(Stores(p))] \ {Stores(p).bit} = seen[p] \ {Stores(p).bit}
  BY Zenon DEF SeenInv
<1> QED
  BY <1>1, NewByteIs

-----------------------------------------------------------------------------
(* The invariant.                                                           *)

LEMMA InitIInv == Init => IInv
<1> SUFFICES ASSUME Init PROVE IInv
  OBVIOUS
<1>1. FileInv
  <2>1. \A p \in Actor : file[p] \in attributes(drv) /\ Writable(drv, file[p])
    BY DEF Init
  <2> QED
    BY <2>1 DEF Init, FileInv
<1>2. \A p \in Actor : pc[p] = "idle" /\ op[p] = "show" /\ seen[p] = {}
  BY DEF Init
<1>3. held = {}
  BY DEF Init
<1>4. LockInv
  BY <1>2, <1>3 DEF LockInv
<1>5. MemoryInv
  BY <1>2 DEF Init, MemoryInv
<1> QED
  BY <1>1, <1>2, <1>4, <1>5 DEF IInv, SeenInv

\* No step opens a file or moves a register.
LEMMA NextFileInv == FileInv /\ [Next]_vars => FileInv'
<1> SUFFICES ASSUME FileInv, [Next]_vars PROVE FileInv'
  OBVIOUS
<1>1. drv' = drv /\ file' = file
  BY Zenon DEF Next, Step, Call, Lock, Read, ReadFails, Write, WriteFails, vars
<1>2. DOMAIN chip' = DOMAIN chip
  BY DEF Next, Step, Call, Lock, Read, ReadFails, Write, WriteFails, vars, Put
<1>3. DOMAIN pc' = DOMAIN pc /\ DOMAIN op' = DOMAIN op /\ DOMAIN seen' = DOMAIN seen
  BY DEF Next, Step, Call, Lock, Read, ReadFails, Write, WriteFails, vars, Use, GoesOn,
         Return, Retry
<1>4. \A p \in Actor : op'[p] \in {"show", "store", "access"}
  BY DEF FileInv, Next, Step, Call, Lock, Read, ReadFails, Write, WriteFails, vars, Use, GoesOn,
         Return, Retry
<1> QED
  BY <1>1, <1>2, <1>3, <1>4, Zenon DEF FileInv, OpenFiles

\* What a process that returns leaves behind; the others stay where they are.
Returned(p) ==
  /\ held' = held \ {p}
  /\ pc'[p] = "idle" /\ op'[p] = "show" /\ seen'[p] = {}
  /\ \A q \in Actor \ {p} : pc'[q] = pc[q] /\ op'[q] = op[q] /\ seen'[q] = seen[q]

LEMMA ReturnIs ==
  ASSUME FileInv, NEW p \in Actor, Return(p)
  PROVE  Returned(p)
BY DEF FileInv, Return, Returned

\* A process that returns, and whatever it wrote was in a register of its own.
LEMMA ReturnKeeps ==
  ASSUME IInv, Careful(drv), NEW p \in Actor, Returned(p), drv' = drv, file' = file,
         \A q \in Actor \ {p} : pc[q] = "write" =>
           chip'[Place(Stores(q))] = chip[Place(Stores(q))],
         drv = "as7716_32xb" => \A r \in DOMAIN chip' : chip'[r] \subseteq {0}
  PROVE  LockInv' /\ SeenInv' /\ MemoryInv'
<1>1. LockInv'
  BY DEF IInv, LockInv, Returned
<1>2. \A q \in Actor : Stores(q)' = Stores(q)
  BY DEF Stores
<1>3. \A q \in Actor : pc'[q] = "write" => q # p
  BY DEF Returned
<1>4. SeenInv'
  <2>1. SeenInv
    BY DEF IInv
  <2>2. \A q \in Actor \ {p} : pc'[q] = pc[q] /\ op'[q] = op[q] /\ seen'[q] = seen[q]
    BY DEF Returned
  <2>3. ASSUME NEW q \in Actor, pc'[q] = "write"
        PROVE  /\ op'[q] \in {"store", "access"}
               /\ op'[q] = "store" =>
                    chip'[Place(Stores(q))] \ {Stores(q).bit} = seen'[q] \ {Stores(q).bit}
    <3>1. q # p
      BY <1>3, <2>3
    <3>2. pc[q] = "write" /\ op'[q] = op[q] /\ seen'[q] = seen[q]
      BY <2>2, <2>3, <3>1
    <3>3. chip'[Place(Stores(q))] = chip[Place(Stores(q))]
      BY <3>1, <3>2
    <3> QED
      BY <2>1, <3>2, <3>3, Zenon DEF SeenInv
  <2> QED
    BY <1>2, <2>3, Zenon DEF SeenInv
<1>5. MemoryInv'
  BY Zenon DEF IInv, MemoryInv, Returned
<1> QED
  BY <1>1, <1>4, <1>5

\* A step of process p that leaves the locks and the labels alone, and every
\* register but its own.
LEMMA StayKeeps ==
  ASSUME IInv, Careful(drv), NEW p \in Actor, pc[p] \in {"read", "write"},
         UNCHANGED <<drv, file, pc, op, seen, held>>,
         \A q \in Actor \ {p} : pc[q] = "write" =>
           chip'[Place(Stores(q))] = chip[Place(Stores(q))],
         pc[p] = "write" /\ op[p] = "store" =>
           chip'[Place(Stores(p))] \ {Stores(p).bit} = chip[Place(Stores(p))] \ {Stores(p).bit},
         drv = "as7716_32xb" => \A r \in DOMAIN chip' : chip'[r] \subseteq {0}
  PROVE  LockInv' /\ SeenInv' /\ MemoryInv'
<1>1. LockInv'
  BY DEF IInv, LockInv
<1>2. \A q \in Actor : Stores(q)' = Stores(q)
  BY DEF Stores
<1>3. SeenInv'
  BY <1>2, Zenon DEF IInv, SeenInv
<1>4. MemoryInv'
  BY Zenon DEF IInv, MemoryInv
<1> QED
  BY <1>1, <1>3, <1>4

\* A write leaves the registers of the others alone, and the cells of the
\* memory at 0 or 1.
LEMMA PutKeeps ==
  ASSUME IInv, Careful(drv), NEW p \in Actor, pc[p] = "write", Put(p) \/ UNCHANGED chip
  PROVE  /\ \A q \in Actor \ {p} : pc[q] = "write" =>
              chip'[Place(Stores(q))] = chip[Place(Stores(q))]
         /\ op[p] = "store" =>
              chip'[Place(Stores(p))] \ {Stores(p).bit} = chip[Place(Stores(p))] \ {Stores(p).bit}
         /\ drv = "as7716_32xb" => \A r \in DOMAIN chip' : chip'[r] \subseteq {0}
<1>1. CASE UNCHANGED chip
  BY <1>1, Zenon DEF IInv, MemoryInv
<1>2. CASE Put(p)
  <2>1. /\ DOMAIN chip' = DOMAIN chip
        /\ chip'[Place(Stores(p))] = NewByte(p)
        /\ \A r \in DOMAIN chip \ {Place(Stores(p))} : chip'[r] = chip[r]
    BY <1>2, StoresPlace DEF Put, IInv
  <2>2. \A q \in Actor \ {p} : pc[q] = "write" =>
          chip'[Place(Stores(q))] = chip[Place(Stores(q))]
    <3>1. TAKE q \in Actor \ {p}
    <3>2. HAVE pc[q] = "write"
    <3>3. Place(Stores(q)) # Place(Stores(p))
      BY <3>2, OwnRegister, Zenon DEF IInv
    <3>4. Place(Stores(q)) \in DOMAIN chip
      BY StoresPlace DEF IInv
    <3> QED
      BY <2>1, <3>3, <3>4
  <2>3. op[p] = "store" =>
          chip'[Place(Stores(p))] \ {Stores(p).bit} = chip[Place(Stores(p))] \ {Stores(p).bit}
    BY <2>1, OneBit DEF IInv
  <2>4. ASSUME drv = "as7716_32xb" PROVE \A r \in DOMAIN chip' : chip'[r] \subseteq {0}
    <3>1. op[p] = "store" /\ seen[p] = {}
      BY <2>4, Zenon DEF IInv, MemoryInv, SeenInv
    <3>2. Stores(p).bit = 0
      BY <2>4, StoresPlace DEF IInv
    <3>3. NewByte(p) \subseteq {0}
      BY <3>1, <3>2, NewByteIs
    <3>4. \A r \in DOMAIN chip : chip[r] \subseteq {0}
      BY <2>4, Zenon DEF IInv, MemoryInv
    <3> QED
      BY <2>1, <3>3, <3>4
  <2> QED
    BY <2>2, <2>3, <2>4
<1> QED
  BY <1>1, <1>2

LEMMA NextLocked ==
  ASSUME IInv, Careful(drv), [Next]_vars
  PROVE  LockInv' /\ SeenInv' /\ MemoryInv'
<1>0. Careful(drv) => LockInv /\ SeenInv /\ MemoryInv /\ FileInv
  BY DEF IInv
<1>1. ASSUME NEW p \in Actor, Call(p) PROVE LockInv' /\ SeenInv' /\ MemoryInv'
  <2>1. /\ UNCHANGED <<drv, file, chip, held, seen>>
        /\ pc[p] = "idle" /\ pc'[p] = "lock"
        /\ \A q \in Actor \ {p} : pc'[q] = pc[q] /\ op'[q] = op[q]
        /\ drv = "as7716_32xb" => op'[p] # "access"
    BY <1>0, <1>1 DEF Call, FileInv
  <2>2. LockInv'
    BY <1>0, <2>1 DEF LockInv
  <2>3. \A q \in Actor : Stores(q)' = Stores(q)
    BY <2>1 DEF Stores
  <2>4. SeenInv'
    BY <1>0, <2>1, <2>3, Zenon DEF SeenInv
  <2>5. MemoryInv'
    BY <1>0, <2>1, Zenon DEF MemoryInv
  <2> QED
    BY <2>2, <2>4, <2>5
<1>2. ASSUME NEW p \in Actor, Lock(p) PROVE LockInv' /\ SeenInv' /\ MemoryInv'
  <2>1. /\ UNCHANGED <<drv, file, chip, op, seen>>
        /\ pc[p] = "lock" /\ held' = held \cup {p}
        /\ pc'[p] \in {"read", "write"}
        /\ pc'[p] = "read" /\ drv = "as7716_32xb" => op[p] # "store"
        /\ pc'[p] = "write" => op[p] = "access" \/ (drv = "as7716_32xb" /\ op[p] = "store")
        /\ \A q \in Actor \ {p} : pc'[q] = pc[q]
        /\ \A q \in held : ~SameLock(drv, file[p], file[q])
    BY <1>0, <1>2 DEF Lock, FileInv
  <2>2. LockInv'
    <3>1. \A q \in held : ~SameLock(drv, file[q], file[p])
      BY <2>1, LockBothWays
    <3>2. held' = {q \in Actor : pc'[q] \in {"read", "write"}}
      BY <1>0, <2>1 DEF LockInv
    <3> QED
      BY <1>0, <2>1, <3>1, <3>2, Zenon DEF LockInv
  <2>3. \A q \in Actor : Stores(q)' = Stores(q)
    BY <2>1 DEF Stores
  <2>4. pc'[p] = "write" /\ op[p] = "store" =>
          chip[Place(Stores(p))] \ {Stores(p).bit} = seen[p] \ {Stores(p).bit}
    <3>1. HAVE pc'[p] = "write" /\ op[p] = "store"
    <3>2. drv = "as7716_32xb" /\ seen[p] = {} /\ Stores(p).bit = 0
      BY <1>0, <2>1, <3>1, StoresPlace DEF MemoryInv
    <3>3. chip[Place(Stores(p))] \subseteq {0}
      BY <1>0, <3>2, StoresPlace DEF MemoryInv
    <3> QED
      BY <3>2, <3>3
  <2>5. SeenInv'
    BY <1>0, <2>1, <2>3, <2>4, Zenon DEF SeenInv
  <2>6. MemoryInv'
    BY <1>0, <2>1, Zenon DEF MemoryInv, FileInv
  <2> QED
    BY <2>2, <2>5, <2>6
<1>3. ASSUME NEW p \in Actor, Read(p) PROVE LockInv' /\ SeenInv' /\ MemoryInv'
  <2>1. /\ UNCHANGED <<drv, file, chip>> /\ pc[p] = "read"
        /\ Use(p, chip[Place(Target(p))])
    BY <1>3 DEF Read
  <2>2. CASE op[p] = "show"
    <3>1. Returned(p)
      BY <1>0, <2>1, <2>2, ReturnIs DEF Use
    <3> QED
      BY <1>0, <2>1, <3>1, ReturnKeeps, Zenon DEF MemoryInv
  <2>3. CASE op[p] # "show"
    <3>1. /\ UNCHANGED <<op, held>>
          /\ pc'[p] = "write" /\ seen'[p] = chip[Place(Stores(p))]
          /\ \A q \in Actor \ {p} : pc'[q] = pc[q] /\ seen'[q] = seen[q]
      BY <1>0, <2>1, <2>3 DEF Use, Target, FileInv
    <3>2. drv # "as7716_32xb" /\ op[p] \in {"store", "access"}
      BY <1>0, <2>1, <2>3, Zenon DEF MemoryInv, FileInv
    <3>3. LockInv'
      BY <1>0, <2>1, <3>1 DEF LockInv
    <3>4. \A q \in Actor : Stores(q)' = Stores(q)
      BY <2>1 DEF Stores
    <3>5. SeenInv'
      BY <1>0, <2>1, <3>1, <3>2, <3>4, Zenon DEF SeenInv
    <3>6. MemoryInv'
      BY <2>1, <3>2 DEF MemoryInv
    <3> QED
      BY <3>3, <3>5, <3>6
  <2> QED
    BY <2>2, <2>3
<1>4. ASSUME NEW p \in Actor, ReadFails(p) PROVE LockInv' /\ SeenInv' /\ MemoryInv'
  <2>1. /\ UNCHANGED <<drv, file, chip>> /\ pc[p] = "read"
        /\ Retry(p) \/ Return(p)
    BY <1>4 DEF ReadFails
  <2>2. CASE Retry(p)
    BY <1>0, <2>1, <2>2, StayKeeps DEF Retry, MemoryInv
  <2>3. CASE Return(p)
    BY <1>0, <2>1, <2>3, ReturnIs, ReturnKeeps DEF MemoryInv
  <2> QED
    BY <2>1, <2>2, <2>3
<1>5. ASSUME NEW p \in Actor, Write(p) PROVE LockInv' /\ SeenInv' /\ MemoryInv'
  <2>1. Returned(p) /\ Put(p) /\ pc[p] = "write" /\ drv' = drv /\ file' = file
    BY <1>0, <1>5, ReturnIs DEF Write
  <2> QED
    BY <2>1, PutKeeps, ReturnKeeps
<1>6. ASSUME NEW p \in Actor, WriteFails(p) PROVE LockInv' /\ SeenInv' /\ MemoryInv'
  <2>1. /\ pc[p] = "write" /\ drv' = drv /\ file' = file
        /\ Put(p) \/ UNCHANGED chip
        /\ Retry(p) \/ Return(p)
    BY <1>6, Zenon DEF WriteFails
  <2>2. CASE Retry(p)
    <3>1. UNCHANGED <<pc, op, seen, held>>
      BY <2>2 DEF Retry
    <3> QED
      BY <2>1, <3>1, PutKeeps, StayKeeps
  <2>3. CASE Return(p)
    <3>1. Returned(p)
      BY <1>0, <2>3, ReturnIs
    <3> QED
      BY <2>1, <3>1, PutKeeps, ReturnKeeps
  <2> QED
    BY <2>1, <2>2, <2>3
<1>7. CASE UNCHANGED vars
  <2>1. \A q \in Actor : Stores(q)' = Stores(q)
    BY <1>7 DEF vars, Stores
  <2> QED
    BY <1>0, <1>7, <2>1 DEF vars, LockInv, SeenInv, MemoryInv
<1> QED
  BY <1>1, <1>2, <1>3, <1>4, <1>5, <1>6, <1>7 DEF Next, Step

-----------------------------------------------------------------------------
(* The theorems.                                                            *)

\* What a store rests on (set_tx_disable, set_reset, set_mode_reset,
\* set_status): the lock of the device is held from the read to the last
\* attempt to write, and what is written differs in one bit from what was read.
THEOREM Inductive == Spec => []IInv
<1>1. Init => IInv
  BY InitIInv
<1>2. IInv /\ [Next]_vars => IInv'
  <2> SUFFICES ASSUME IInv, [Next]_vars PROVE IInv'
    OBVIOUS
  <2>2. FileInv'
    BY NextFileInv DEF IInv
  <2>3. drv' = drv
    BY Zenon DEF Next, Step, Call, Lock, Read, ReadFails, Write, WriteFails, vars
  <2>4. Careful(drv)' => Careful(drv)
    BY <2>3 DEF Careful
  <2> QED
    BY <2>2, <2>4, NextLocked DEF IInv
<1> QED
  BY <1>1, <1>2, PTL DEF Spec

\* The registers change only by the write of a process that is told to, and
\* then in the bit of its file alone, whatever the other processes do and
\* whichever transfers fail.
THEOREM OwnBitOnly == Spec => OnlyOwnBit
<1> DEFINE Own ==
      Careful(drv) =>
        \A r \in DOMAIN chip :
          \A b \in (chip[r] \ chip'[r]) \cup (chip'[r] \ chip[r]) :
            \E p \in Actor : /\ pc[p] = "write"
                             /\ op[p] = "access" \/ Stores(p) = At(r.dev, r.reg, b)
<1>1. IInv /\ [Next]_vars => [Own]_vars
  <2> SUFFICES ASSUME IInv, Next, Careful(drv), NEW r \in DOMAIN chip,
                      NEW b \in (chip[r] \ chip'[r]) \cup (chip'[r] \ chip[r])
               PROVE  \E p \in Actor : /\ pc[p] = "write"
                                       /\ op[p] = "access" \/ Stores(p) = At(r.dev, r.reg, b)
    OBVIOUS
  <2>1. chip' # chip
    OBVIOUS
  <2>2. PICK p \in Actor : pc[p] = "write" /\ Put(p)
    BY <2>1, Zenon DEF Next, Step, Call, Lock, Read, ReadFails, Write, WriteFails
  <2>3. r = Place(Stores(p)) /\ chip'[r] = NewByte(p)
    BY <2>2 DEF Put
  <2>4. op[p] \in {"store", "access"}
    BY <2>2 DEF IInv, SeenInv
  <2>5. CASE op[p] = "store"
    <3>1. NewByte(p) \ {Stores(p).bit} = chip[r] \ {Stores(p).bit}
      BY <2>2, <2>3, <2>5, OneBit DEF IInv
    <3>2. b = Stores(p).bit
      BY <2>3, <3>1
    <3> QED
      BY <2>2, <2>3, <3>2, StoresPlace DEF IInv
  <2> QED
    BY <2>2, <2>4, <2>5
<1> QED
  BY <1>1, Inductive, PTL DEF Spec, OnlyOwnBit

-----------------------------------------------------------------------------
(* What is stored stays, and is what a show answers.                        *)

LEMMA NextStoredInv == StoredInv /\ [Next]_vars => StoredInv'
<1> SUFFICES ASSUME StoredInv, [Next]_vars PROVE StoredInv'
  OBVIOUS
<1>1. drv' = drv /\ file' = file
  BY Zenon DEF Next, Step, Call, Lock, Read, ReadFails, Write, WriteFails, vars
<1>2. want' \in [Actor -> {0, 1}]
  BY DEF StoredInv, Next, Step, Call, Lock, Read, ReadFails, Write, WriteFails, vars, Use,
         GoesOn, Return, Retry
<1>3. \/ UNCHANGED stored
      \/ \E p \in Actor : \E v \in {0, 1, None} : stored' = Known(p, v)
  <2>1. \A p \in Actor : want[p] \in {0, 1, None}
    BY DEF StoredInv
  <2> QED
    BY <2>1, Zenon DEF Next, Step, Call, Lock, Read, ReadFails, Write, WriteFails, vars
<1>4. \A f \in OpenFiles : stored'[f] \in {0, 1, None}
  <2>1. CASE UNCHANGED stored
    BY <2>1 DEF StoredInv
  <2>2. ASSUME NEW p \in Actor, NEW v \in {0, 1, None}, stored' = Known(p, v)
        PROVE  \A f \in OpenFiles : stored'[f] \in {0, 1, None}
    BY <2>2 DEF Known, StoredInv
  <2> QED
    BY <1>3, <2>1, <2>2
<1> QED
  BY <1>1, <1>2, <1>4, Zenon DEF StoredInv, OpenFiles

\* A write, and what is known after it.  It is enough that what is known of
\* the own file is right, and a failed write leaves nothing known of it.
LEMMA WriteKeepsStored ==
  ASSUME IInv, Careful(drv), NoLostUpdate, NEW p \in Actor, pc[p] = "write",
         UNCHANGED <<drv, file>>, NEW v, stored' = Known(p, v),
         \/ Put(p) /\ v \in {want[p], None}
         \/ UNCHANGED chip /\ v = None
  PROVE  NoLostUpdate'
<1>1. FileInv /\ SeenInv
  BY DEF IInv
<1>2. op[p] \in {"store", "access"}
  BY <1>1 DEF SeenInv
<1>3. OpenFiles' = OpenFiles /\ file[p] \in OpenFiles
  BY DEF OpenFiles
<1>4. \A f \in OpenFiles : f \in attributes(drv) /\ Writable(drv, f) /\ Place(StoredAt(drv, f)) \in DOMAIN chip
  <2> SUFFICES ASSUME NEW q \in Actor
               PROVE  /\ file[q] \in attributes(drv) /\ Writable(drv, file[q])
                      /\ Place(StoredAt(drv, file[q])) \in DOMAIN chip
    BY DEF OpenFiles
  <2> QED
    BY <1>1, StoresPlace DEF FileInv, Stores
<1> SUFFICES ASSUME NEW f \in OpenFiles, stored'[f] # None
             PROVE  (StoredAt(drv, f).bit \in chip'[Place(StoredAt(drv, f))])
                      = BitOf(stored'[f], StoreInverts(drv, f))
  BY <1>3, Zenon DEF NoLostUpdate
<1>5. stored'[f] = IF op[p] = "store" /\ f = file[p] THEN v
                   ELSE IF op[p] = "access" /\ Place(StoredAt(drv, f)) = Place(Stores(p)) THEN None
                   ELSE stored[f]
  BY DEF Known
<1>6. Put(p) => chip' = [chip EXCEPT ![Place(StoredAt(drv, file[p]))] = NewByte(p)]
  BY Zenon DEF Put, Stores
<1>7. CASE op[p] = "store" /\ f = file[p]
  <2>1. Put(p) /\ stored'[f] = want[p]
    BY <1>5, <1>7
  <2>2. chip'[Place(StoredAt(drv, f))] = NewByte(p)
    BY <1>4, <1>6, <1>7, <2>1
  <2>3. CASE BitOf(want[p], StoreInverts(drv, f))
    <3>1. NewByte(p) = seen[p] \cup {StoredAt(drv, f).bit}
      BY <1>7, <2>3, Zenon DEF NewByte, Stores
    <3>2. BitOf(want[p], StoreInverts(drv, f)) \in BOOLEAN
      BY Zenon DEF BitOf
    <3> QED
      BY <2>1, <2>2, <2>3, <3>1, <3>2
  <2>4. CASE ~BitOf(want[p], StoreInverts(drv, f))
    <3>1. NewByte(p) = seen[p] \ {StoredAt(drv, f).bit}
      BY <1>7, <2>4, Zenon DEF NewByte, Stores
    <3>2. BitOf(want[p], StoreInverts(drv, f)) \in BOOLEAN
      BY Zenon DEF BitOf
    <3> QED
      BY <2>1, <2>2, <2>4, <3>1, <3>2
  <2> QED
    BY <2>3, <2>4
<1>8. CASE ~(op[p] = "store" /\ f = file[p])
  <2>1. stored'[f] = stored[f] /\ ~(op[p] = "access" /\ Place(StoredAt(drv, f)) = Place(Stores(p)))
    BY <1>5, <1>8
  <2>2. (StoredAt(drv, f).bit \in chip[Place(StoredAt(drv, f))])
          = BitOf(stored[f], StoreInverts(drv, f))
    BY <2>1, Zenon DEF NoLostUpdate
  <2>3. (StoredAt(drv, f).bit \in chip'[Place(StoredAt(drv, f))])
          <=> (StoredAt(drv, f).bit \in chip[Place(StoredAt(drv, f))])
    <3>1. CASE Place(StoredAt(drv, f)) # Place(Stores(p)) \/ UNCHANGED chip
      <4>1. chip'[Place(StoredAt(drv, f))] = chip[Place(StoredAt(drv, f))]
        BY <1>4, <1>6, <3>1 DEF Stores
      <4> QED
        BY <4>1
    <3>2. CASE Place(StoredAt(drv, f)) = Place(Stores(p)) /\ Put(p)
      <4>1. op[p] = "store" /\ f # file[p]
        BY <1>2, <1>8, <2>1, <3>2
      <4>2. StoredAt(drv, f) # StoredAt(drv, file[p])
        BY <1>3, <1>4, <4>1, OneFileOneBit
      <4>3. PICK g \in Actor : f = file[g]
        BY DEF OpenFiles
      <4>4. StoredAt(drv, f).bit # Stores(p).bit
        BY <1>1, <3>2, <4>2, <4>3, StoresPlace DEF Stores
      <4>5. NewByte(p) \ {Stores(p).bit} = chip[Place(Stores(p))] \ {Stores(p).bit}
        BY <1>1, <4>1, OneBit
      <4>6. chip'[Place(StoredAt(drv, f))] = NewByte(p)
        BY <1>3, <1>4, <1>6, <3>2 DEF Stores
      <4> QED
        BY <3>2, <4>4, <4>5, <4>6
    <3> QED
      BY <3>1, <3>2
  <2> QED
    BY <2>1, <2>2, <2>3
<1> QED
  BY <1>7, <1>8

LEMMA NextNoLostUpdate ==
  ASSUME IInv, NoLostUpdate, [Next]_vars
  PROVE  NoLostUpdate'
<1>1. drv' = drv /\ file' = file
  BY Zenon DEF Next, Step, Call, Lock, Read, ReadFails, Write, WriteFails, vars
<1> SUFFICES ASSUME Careful(drv) PROVE NoLostUpdate'
  BY <1>1, Zenon DEF NoLostUpdate, Careful
<1>2. CASE UNCHANGED <<chip, stored>>
  BY <1>1, <1>2, Zenon DEF NoLostUpdate, OpenFiles
<1>3. ASSUME NEW p \in Actor, Write(p) PROVE NoLostUpdate'
  BY <1>1, <1>3, WriteKeepsStored DEF Write
<1>4. ASSUME NEW p \in Actor, WriteFails(p) PROVE NoLostUpdate'
  <2>1. drv # "as7712_32x_sfp"
    BY DEF Careful, CpldDrivers
  <2>2. stored' = Known(p, None) /\ pc[p] = "write" /\ (Put(p) \/ UNCHANGED chip)
    BY <1>4, <2>1, Zenon DEF WriteFails
  <2> QED
    BY <1>1, <2>2, WriteKeepsStored
<1> QED
  BY <1>2, <1>3, <1>4, Zenon DEF Next, Step, Call, Lock, Read, ReadFails, vars

\* The bit of a file has the value last stored in it, for any processes, ports,
\* failed transfers and stores in the other files of its register, in every
\* driver that looks at what its reads return (set_tx_disable, set_reset,
\* set_mode_reset, set_status and sfp_value_store): two of its files never
\* share a bit, and a store rewrites the others as it has read them.
THEOREM LastStoreStays == Spec => []NoLostUpdate
<1>1. Init => NoLostUpdate
  BY Zenon DEF Init, NoLostUpdate
<1>2. IInv /\ NoLostUpdate /\ [Next]_vars => NoLostUpdate'
  BY NextNoLostUpdate
<1> QED
  BY <1>1, <1>2, Inductive, PTL DEF Spec

\* What a show answers is what was last stored in its file, but for the
\* resets of AS7312-54X and AS7726-32X: the tables a show and a store use
\* name the same bit, and the bit is as it was stored.
THEOREM StoredIsShown == Spec => ShownIsStored
<1> DEFINE Answers ==
      Careful(drv) =>
        \A p \in Actor :
          LET f == file[p]
          IN  (/\ ~(drv \in {"as7312_54x", "as7726_32x"} /\ f.kind = "reset")
               /\ shown'[p] # None /\ stored[f] # None)
              => shown'[p] = stored[f]
<1>1. Init => StoredInv
  BY DEF Init, StoredInv
<1>2. StoredInv /\ [Next]_vars => StoredInv'
  BY NextStoredInv
<1>3. IInv /\ NoLostUpdate /\ StoredInv /\ [Next]_vars => [Answers]_vars
  <2> SUFFICES ASSUME IInv, NoLostUpdate, StoredInv, Next, Careful(drv), NEW p \in Actor,
                      ~(drv \in {"as7312_54x", "as7726_32x"} /\ file[p].kind = "reset"),
                      shown'[p] # None, stored[file[p]] # None
               PROVE  shown'[p] = stored[file[p]]
    BY Zenon
  <2>1. PICK q \in Actor : Read(q)
    <3>1. ~NoAnswer
      BY DEF NoAnswer
    <3>2. \A q \in Actor : ~Call(q) /\ ~Lock(q) /\ ~Write(q)
      BY <3>1, Zenon DEF Call, Lock, Write
    <3>3. \A q \in Actor : ~ReadFails(q) /\ ~WriteFails(q)
      BY <3>1, Zenon DEF ReadFails, WriteFails, Retry
    <3> QED
      BY <3>2, <3>3, Zenon DEF Next, Step
  <2>2. /\ q = p /\ op[p] = "show"
        /\ shown'[p] = ValueOf(Shows(p).bit \in chip[Place(Shows(p))], ShowInverts(drv, file[p]))
    <3>1. Use(q, chip[Place(Target(q))])
      BY <2>1 DEF Read
    <3>2. op[q] = "show"
      BY <3>1 DEF Use, NoAnswer
    <3>3. q = p
      BY <3>1, <3>2 DEF Use
    <3> QED
      BY <3>1, <3>2, <3>3 DEF Use, Target
  <2>3. file[p] \in attributes(drv) /\ Writable(drv, file[p]) /\ file[p] \in OpenFiles
    BY DEF IInv, FileInv, OpenFiles
  <2>4. /\ ShownAt(drv, file[p]) = StoredAt(drv, file[p])
        /\ ShowInverts(drv, file[p]) <=> StoreInverts(drv, file[p])
    BY <2>3, ShownWhereStored
  <2>5. (StoredAt(drv, file[p]).bit \in chip[Place(StoredAt(drv, file[p]))])
          = BitOf(stored[file[p]], StoreInverts(drv, file[p]))
    BY <2>3, Zenon DEF NoLostUpdate
  <2>6. stored[file[p]] \in {0, 1}
    BY <2>3 DEF StoredInv
  <2>7. shown'[p] = ValueOf(BitOf(stored[file[p]], StoreInverts(drv, file[p])),
                            ShowInverts(drv, file[p]))
    BY <2>2, <2>4, <2>5, Zenon DEF Shows
  <2>8. /\ ShowInverts(drv, file[p]) \in BOOLEAN
        /\ StoreInverts(drv, file[p]) \in BOOLEAN
    BY Zenon DEF ShowInverts, StoreInverts
  <2>9. shown'[p] = IF stored[file[p]] = 1 THEN 1 ELSE 0
    <3>1. \A x, y, v : /\ x \in BOOLEAN /\ y \in BOOLEAN /\ (x <=> y)
                       => ValueOf(BitOf(v, y), x) = IF v = 1 THEN 1 ELSE 0
      BY Zenon DEF ValueOf, BitOf
    <3> QED
      BY <2>4, <2>7, <2>8, <3>1, Zenon
  <2> QED
    BY <2>6, <2>9
<1> QED
  BY <1>1, <1>2, <1>3, Inductive, LastStoreStays, PTL DEF Spec, ShownIsStored

-----------------------------------------------------------------------------
(* The lines of all ports: the files of a kind, the ports of a device, and   *)
(* the bits of a line, one by one.                                           *)

\* The files of a kind are those of these ports.
KindFiles(d, kind, ports) == {g \in attributes(d) : g.kind = kind} = {File(kind, p) : p \in ports}

\* So it is for a kind that has one row in the enumeration.
LEMMA FilesOfKind ==
  ASSUME NEW d, NEW rows, attributes(d) = FilesOf(rows),
         NEW j \in DOMAIN rows, NEW kind, NEW first, NEW last,
         rows[j] = Row(kind, first, last),
         \A i \in DOMAIN rows : rows[i].kind = kind => i = j
  PROVE  KindFiles(d, kind, first..last)
<1>1. rows[j].kind = kind /\ rows[j].first = first /\ rows[j].last = last
  BY DEF Row
<1>2. ASSUME NEW f \in FilesOf(rows), f.kind = kind
      PROVE  f \in {File(kind, p) : p \in first..last}
  <2>1. PICK i \in DOMAIN rows : /\ f = File(rows[i].kind, f.port)
                                 /\ f.kind = rows[i].kind
                                 /\ f.port \in rows[i].first..rows[i].last
    BY FilesAre, Zenon
  <2>2. i = j
    BY <1>2, <2>1, Zenon
  <2> QED
    BY <1>1, <2>1, <2>2, Zenon
<1>3. ASSUME NEW p \in first..last
      PROVE  File(kind, p) \in FilesOf(rows) /\ File(kind, p).kind = kind
  <2>1. File(kind, p) \in [kind : {rows[j].kind}, port : rows[j].first..rows[j].last]
    BY <1>1 DEF File
  <2> QED
    BY <2>1, Zenon DEF FilesOf, File
<1> QED
  BY <1>2, <1>3, Zenon DEF KindFiles

\* The place of a port among those of an interval, and of two intervals one
\* after the other.
LEMMA RankInterval ==
  ASSUME NEW a \in Int, NEW b \in Int, NEW p \in a..b
  PROVE  Rank(a..b, p) = p - a + 1
<1>1. {q \in a..b : q <= p} = a..p
  OBVIOUS
<1>2. Cardinality(a..p) = p - a + 1
  BY FS_Interval
<1> QED
  BY <1>1, <1>2 DEF Rank

TwoIntervals(U, a, b, c, e) ==
  /\ a \in Int /\ b \in Int /\ c \in Int /\ e \in Int
  /\ a <= b /\ b < c
  /\ U = (a..b) \cup (c..e)

RankOfTwo(a, b, c, p) == IF p <= b THEN p - a + 1 ELSE (b - a + 1) + (p - c + 1)

LEMMA RankIntervals ==
  ASSUME NEW U, NEW a, NEW b, NEW c, NEW e, TwoIntervals(U, a, b, c, e), NEW p \in U
  PROVE  Rank(U, p) = RankOfTwo(a, b, c, p)
<1> USE DEF TwoIntervals
<1>1. CASE p <= b
  <2>1. {q \in U : q <= p} = a..p /\ p \in a..b
    BY <1>1
  <2>2. Cardinality(a..p) = p - a + 1
    BY <2>1, FS_Interval
  <2> QED
    BY <1>1, <2>1, <2>2 DEF Rank, RankOfTwo
<1>2. CASE p > b
  <2>1. {q \in U : q <= p} = (a..b) \cup (c..p) /\ p \in c..e
    BY <1>2
  <2>2. /\ IsFiniteSet(a..b) /\ Cardinality(a..b) = b - a + 1
        /\ IsFiniteSet(c..p) /\ Cardinality(c..p) = p - c + 1
    BY <2>1, FS_Interval
  <2>3. (a..b) \cap (c..p) = {}
    OBVIOUS
  <2>4. Cardinality((a..b) \cup (c..p))
          = Cardinality(a..b) + Cardinality(c..p) - Cardinality((a..b) \cap (c..p))
    BY <2>2, FS_Union, Zenon
  <2>5. Cardinality({}) = 0
    BY FS_EmptySet
  <2> DEFINE n == Cardinality((a..b) \cup (c..p))
  <2>6. n = (b - a + 1) + (p - c + 1)
    <3>1. n = Cardinality(a..b) + Cardinality(c..p) - 0
      BY <2>3, <2>4, <2>5, Zenon
    <3> HIDE DEF n
    <3>2. n = (b - a + 1) + (p - c + 1) - 0
      BY <2>2, <3>1, Zenon
    <3> QED
      BY <2>1, <3>2
  <2>7. Rank(U, p) = (b - a + 1) + (p - c + 1)
    BY <2>1, <2>6, Zenon DEF Rank
  <2> QED
    BY <1>2, <2>1, <2>7 DEF RankOfTwo
<1> QED
  BY <1>1, <1>2

\* The bits a line is made of.
BitsOf(dev) == {At(dev, r, b) : r \in Int, b \in Int}

LEMMA FirstBitsAre ==
  ASSUME NEW dev, NEW reg \in Int, NEW n \in Nat
  PROVE  /\ FirstBits(dev, reg, n) \in Seq(BitsOf(dev))
         /\ Len(FirstBits(dev, reg, n)) = n
         /\ \A i \in 1..n : FirstBits(dev, reg, n)[i] = At(dev, reg, i - 1)
<1>1. FirstBits(dev, reg, n) = [i \in 1..n |-> At(dev, reg, i - 1)]
  BY DEF FirstBits
<1>2. \A i \in 1..n : At(dev, reg, i - 1) \in BitsOf(dev)
  BY DEF BitsOf
<1> HIDE DEF BitsOf
<1> QED
  BY <1>1, <1>2

\* The elements of t are those of x and then those of y.
Joins(t, x, y) ==
  /\ Len(t) = Len(x) + Len(y)
  /\ \A i \in 1..Len(x) : t[i] = x[i]
  /\ \A i \in 1..Len(y) : t[Len(x) + i] = y[i]

LEMMA Joined ==
  ASSUME NEW S, NEW x \in Seq(S), NEW y \in Seq(S)
  PROVE  x \o y \in Seq(S) /\ Joins(x \o y, x, y)
<1>1. /\ x \o y \in Seq(S)
      /\ Len(x \o y) = Len(x) + Len(y)
      /\ \A i \in 1..Len(x) + Len(y) : (x \o y)[i] = IF i <= Len(x) THEN x[i] ELSE y[i - Len(x)]
  BY ConcatProperties, Zenon
<1>2. Len(x) \in Nat /\ Len(y) \in Nat
  OBVIOUS
<1> QED
  BY <1>1, <1>2 DEF Joins

\* Two and three registers one after the other hold a row of ports.
Two(dev, reg) == FirstBits(dev, reg, 8) \o FirstBits(dev, reg + 1, 8)
Three(dev, reg) == Two(dev, reg) \o FirstBits(dev, reg + 2, 8)

LEMMA TwoRegisters ==
  ASSUME NEW dev, NEW reg \in Int
  PROVE  /\ Two(dev, reg) \in Seq(BitsOf(dev)) /\ Len(Two(dev, reg)) = 16
         /\ \A i \in 1..16 : Two(dev, reg)[i] = InARow(dev, reg, i - 1)
<1> DEFINE x == FirstBits(dev, reg, 8)
           y == FirstBits(dev, reg + 1, 8)
<1>1. reg + 1 \in Int /\ 8 \in Nat
  OBVIOUS
<1>2. x \in Seq(BitsOf(dev)) /\ Len(x) = 8 /\ \A i \in 1..8 : x[i] = At(dev, reg, i - 1)
  BY <1>1, FirstBitsAre, Zenon
<1>3. y \in Seq(BitsOf(dev)) /\ Len(y) = 8 /\ \A i \in 1..8 : y[i] = At(dev, reg + 1, i - 1)
  BY <1>1, FirstBitsAre, Zenon
<1> DEFINE t == Two(dev, reg)
<1>4. t = x \o y
  BY Zenon DEF Two
<1> HIDE DEF x, y, t
<1>5. t \in Seq(BitsOf(dev)) /\ Joins(t, x, y)
  <2>1. x \in Seq(BitsOf(dev)) /\ y \in Seq(BitsOf(dev))
    BY <1>2, <1>3, Zenon
  <2>2. x \o y \in Seq(BitsOf(dev)) /\ Joins(x \o y, x, y)
    BY <2>1, Joined, Zenon
  <2> QED
    BY <1>4, <2>2, Zenon
<1>6. /\ Len(t) = 16
      /\ \A i \in 1..8 : t[i] = x[i]
      /\ \A i \in 1..8 : t[8 + i] = At(dev, reg + 1, i - 1)
  BY <1>2, <1>3, <1>5 DEF Joins
<1>7. ASSUME NEW i \in 1..16
      PROVE  t[i] = InARow(dev, reg, i - 1)
  <2>1. CASE i <= 8
    <3>1. i \in 1..8 /\ (i - 1) \div 8 = 0 /\ (i - 1) % 8 = i - 1
      BY <2>1
    <3>2. t[i] = At(dev, reg + 0, i - 1) /\ reg + 0 = reg
      BY <1>2, <1>6, <3>1
    <3> QED
      BY <3>1, <3>2, Zenon DEF InARow
  <2>2. CASE i > 8
    <3>1. i - 8 \in 1..8 /\ 8 + (i - 8) = i /\ (i - 8) - 1 = i - 9
      BY <2>2
    <3>2. t[i] = At(dev, reg + 1, i - 9)
      BY <1>6, <3>1, Zenon
    <3>3. (i - 1) \div 8 = 1 /\ (i - 1) % 8 = i - 9
      BY <2>2
    <3> QED
      BY <3>2, <3>3, Zenon DEF InARow
  <2> QED
    BY <2>1, <2>2
<1> QED
  BY <1>5, <1>6, <1>7, Zenon DEF t

LEMMA ThreeRegisters ==
  ASSUME NEW dev, NEW reg \in Int
  PROVE  /\ Three(dev, reg) \in Seq(BitsOf(dev)) /\ Len(Three(dev, reg)) = 24
         /\ \A i \in 1..24 : Three(dev, reg)[i] = InARow(dev, reg, i - 1)
<1> DEFINE x == Two(dev, reg)
           y == FirstBits(dev, reg + 2, 8)
<1>1. reg + 2 \in Int /\ 8 \in Nat
  OBVIOUS
<1>2. x \in Seq(BitsOf(dev)) /\ Len(x) = 16 /\ \A i \in 1..16 : x[i] = InARow(dev, reg, i - 1)
  BY TwoRegisters, Zenon
<1>3. y \in Seq(BitsOf(dev)) /\ Len(y) = 8 /\ \A i \in 1..8 : y[i] = At(dev, reg + 2, i - 1)
  BY <1>1, FirstBitsAre, Zenon
<1> DEFINE t == Three(dev, reg)
<1>4. t = x \o y
  BY Zenon DEF Three
<1> HIDE DEF x, y, t
<1>5. t \in Seq(BitsOf(dev)) /\ Joins(t, x, y)
  <2>1. x \in Seq(BitsOf(dev)) /\ y \in Seq(BitsOf(dev))
    BY <1>2, <1>3, Zenon
  <2>2. x \o y \in Seq(BitsOf(dev)) /\ Joins(x \o y, x, y)
    BY <2>1, Joined, Zenon
  <2> QED
    BY <1>4, <2>2, Zenon
<1>6. /\ Len(t) = 24
      /\ \A i \in 1..16 : t[i] = x[i]
      /\ \A i \in 1..8 : t[16 + i] = At(dev, reg + 2, i - 1)
  BY <1>2, <1>3, <1>5 DEF Joins
<1>7. ASSUME NEW i \in 1..24
      PROVE  t[i] = InARow(dev, reg, i - 1)
  <2>1. CASE i <= 16
    <3>1. i \in 1..16
      BY <2>1
    <3> QED
      BY <1>2, <1>6, <3>1, Zenon
  <2>2. CASE i > 16
    <3>1. i - 16 \in 1..8 /\ 16 + (i - 16) = i /\ (i - 16) - 1 = i - 17
      BY <2>2
    <3>2. t[i] = At(dev, reg + 2, i - 17)
      BY <1>6, <3>1, Zenon
    <3>3. (i - 1) \div 8 = 2 /\ (i - 1) % 8 = i - 17
      BY <2>2
    <3> QED
      BY <3>2, <3>3, Zenon DEF InARow
  <2> QED
    BY <2>1, <2>2
<1> QED
  BY <1>5, <1>6, <1>7, Zenon DEF t

\* A line of a driver is in order when, for the ports its files of the kind
\* are of, the port that comes i-th in a device has the i-th bit of its line.
DevicePorts(d, kind, ports, dev) == {q \in ports : ShownAt(d, File(kind, q)).dev = dev}

PortInLine(d, kind, ports, p) ==
  LET dev == ShownAt(d, File(kind, p)).dev
  IN  Line(d, kind, dev)[Rank(DevicePorts(d, kind, ports, dev), p)] = ShownAt(d, File(kind, p))

LEMMA LineInOrder ==
  ASSUME NEW d, NEW kind, NEW ports, KindFiles(d, kind, ports),
         \A p \in ports : PortInLine(d, kind, ports, p),
         NEW f \in attributes(d), f.kind = kind
  PROVE  InLine(d, f)
<1> DEFINE dev == ShownAt(d, f).dev
<1>1. PICK p \in ports : f = File(kind, p)
  BY Zenon DEF KindFiles
<1>2. \A q : File(kind, q).port = q /\ File(kind, q).kind = kind
  BY DEF File
<1>3. PortsOf(d, kind, dev) = DevicePorts(d, kind, ports, dev)
  <2>1. ASSUME NEW q \in PortsOf(d, kind, dev)
        PROVE  q \in DevicePorts(d, kind, ports, dev)
    <3>1. PICK g \in attributes(d) : g.kind = kind /\ ShownAt(d, g).dev = dev /\ q = g.port
      BY Zenon DEF PortsOf
    <3>2. PICK r \in ports : g = File(kind, r)
      BY <3>1, Zenon DEF KindFiles
    <3> QED
      BY <1>2, <3>1, <3>2, Zenon DEF DevicePorts
  <2>2. ASSUME NEW q \in DevicePorts(d, kind, ports, dev)
        PROVE  q \in PortsOf(d, kind, dev)
    <3>1. q \in ports /\ ShownAt(d, File(kind, q)).dev = dev
      BY Zenon DEF DevicePorts
    <3>2. File(kind, q) \in attributes(d)
      BY <3>1, Zenon DEF KindFiles
    <3> QED
      BY <1>2, <3>1, <3>2, Zenon DEF PortsOf
  <2> QED
    BY <2>1, <2>2, Zenon
<1> QED
  BY <1>1, <1>2, <1>3, Zenon DEF InLine, PortInLine

\* A kind whose files are all of one device.
LEMMA DeviceInLine ==
  ASSUME NEW d, NEW kind, NEW first \in Nat, NEW last \in Nat, KindFiles(d, kind, first..last),
         \A p \in first..last : ShownAt(d, File(kind, p)).dev = "cpld1",
         \A p \in first..last : Line(d, kind, "cpld1")[p - first + 1] = ShownAt(d, File(kind, p)),
         NEW f \in attributes(d), f.kind = kind
  PROVE  InLine(d, f)
<1>1. DevicePorts(d, kind, first..last, "cpld1") = first..last
  BY Zenon DEF DevicePorts
<1>2. ASSUME NEW p \in first..last
      PROVE  Rank(first..last, p) = p - first + 1
  BY RankInterval
<1>3. \A p \in first..last : PortInLine(d, kind, first..last, p)
  BY <1>1, <1>2, Zenon DEF PortInLine
<1> QED
  BY <1>3, LineInOrder, Zenon

LEMMA Line7716 ==
  ASSUME NEW f \in attributes("as7716_32x"), f.kind \in {"present", "rxlos"}
  PROVE  InLine("as7716_32x", f)
<1> DEFINE d == "as7716_32x"
           rows == as7716_32x_cpld_sysfs_attributes
<1>1. DOMAIN rows = 1..2 /\ rows[1] = Row("present", 1, 32) /\ rows[2] = Row("reset", 1, 32)
  BY DEF as7716_32x_cpld_sysfs_attributes
<1>2. attributes(d) = FilesOf(rows)
  BY Zenon DEF attributes, Models, as7716_32x_attributes
<1> HIDE DEF rows
<1>3. KindFiles(d, "present", 1..32)
  <2>1. 1 \in DOMAIN rows /\ \A i \in DOMAIN rows : rows[i].kind = "present" => i = 1
    BY <1>1 DEF Row
  <2> QED
    BY <1>1, <1>2, <2>1, FilesOfKind, Zenon
<1>4. f.kind = "present"
  BY <1>1, <1>2, FilesAre DEF Row
<1>5. ASSUME NEW p \in 1..32
      PROVE  ShownAt(d, File("present", p)) = InARow("cpld1", 48, p - 1)
  <2>1. File("present", p).kind = "present" /\ File("present", p).port = p
    BY DEF File
  <2> QED
    BY <2>1, Zenon DEF ShownAt, Models, as7716_32x_show_present
<1>6. Line(d, "present", "cpld1") = [i \in 1..32 |-> InARow("cpld1", 48, i - 1)]
  BY Zenon DEF Line, show_present_all, Models, as7716_32x_show_present_all
<1>7. ASSUME NEW p \in 1..32
      PROVE  /\ ShownAt(d, File("present", p)).dev = "cpld1"
             /\ Line(d, "present", "cpld1")[p - 1 + 1] = ShownAt(d, File("present", p))
  BY <1>5, <1>6 DEF InARow, At
<1> QED
  BY <1>3, <1>4, <1>7, DeviceInLine

\* The models that have files, 32 ports of them.
LEMMA LineModels ==
  ASSUME NEW d \in Models \ {"cpld_as7816"}, NEW f \in attributes(d), f.kind \in {"present", "rxlos"}
  PROVE  InLine(d, f)
<1> DEFINE last == get_sfp_spec(d)
           rows == <<Row("present", 1, last), Row("reset", 1, last)>>
<1>1. DOMAIN rows = 1..2 /\ rows[1] = Row("present", 1, last) /\ rows[2] = Row("reset", 1, last)
  OBVIOUS
<1>2. attributes(d) = FilesOf(rows)
  BY Zenon DEF attributes, Models, add_attributes_portly
<1>3. d # "cpld_as7312" => d \in {"cpld_as7712", "cpld_as7716"} /\ last = 32
  BY DEF get_sfp_spec, Models
<1>4. d = "cpld_as7312" => last = 0
  BY Zenon DEF get_sfp_spec
<1> HIDE DEF rows, last
<1>5. f.kind = "present" /\ f.port \in 1..last
  BY <1>1, <1>2, FilesAre DEF Row
<1>6. d \in {"cpld_as7712", "cpld_as7716"} /\ last = 32
  BY <1>3, <1>4, <1>5
<1>7. KindFiles(d, "present", 1..32)
  <2>1. 1 \in DOMAIN rows /\ \A i \in DOMAIN rows : rows[i].kind = "present" => i = 1
    BY <1>1 DEF Row
  <2> QED
    BY <1>1, <1>2, <1>6, <2>1, FilesOfKind, Zenon
<1>8. ASSUME NEW p \in 1..32
      PROVE  ShownAt(d, File("present", p)) = InARow("cpld1", 48, p - 1)
  <2>1. File("present", p).kind = "present" /\ File("present", p).port = p
    BY DEF File
  <2>2. ShownAt(d, File("present", p)) = common_show_bit(d, File("present", p))
    BY <1>6, Zenon DEF ShownAt, Models
  <2>3. models_attr(d, "present") = 48
    BY <1>6, Zenon DEF models_attr
  <2> QED
    BY <2>1, <2>2, <2>3, Zenon DEF common_show_bit, get_reg_bit
<1>9. Line(d, "present", "cpld1") = [i \in 1..32 |-> InARow("cpld1", 48, i - 1)]
  <2>1. Line(d, "present", "cpld1") = common_show_presnet_all(d, "cpld1")
    BY <1>6, Zenon DEF Line, show_present_all, Models
  <2>2. common_present_all_reg(d) = 48
    BY <1>6, Zenon DEF common_present_all_reg
  <2>3. 8 * ((last + 7) \div 8) = 32
    BY <1>6
  <2> QED
    BY <2>1, <2>2, <2>3, Zenon DEF common_show_presnet_all, last
<1>10. ASSUME NEW p \in 1..32
       PROVE  /\ ShownAt(d, File("present", p)).dev = "cpld1"
              /\ Line(d, "present", "cpld1")[p - 1 + 1] = ShownAt(d, File("present", p))
  BY <1>8, <1>9 DEF InARow, At
<1> QED
  BY <1>5, <1>7, <1>10, DeviceInLine

LEMMA Line7726 ==
  ASSUME NEW f \in attributes("as7726_32x"), f.kind \in {"present", "rxlos"}
  PROVE  InLine("as7726_32x", f)
<1> DEFINE d == "as7726_32x"
           rows == as7726_32x_cpld_sysfs_attributes
<1>1. /\ DOMAIN rows = 1..4
      /\ rows[1] = Row("present", 1, 34) /\ rows[2] = Row("txdisable", 33, 34)
      /\ rows[3] = Row("rxlos", 33, 34) /\ rows[4] = Row("reset", 1, 32)
  BY DEF as7726_32x_cpld_sysfs_attributes
<1>2. attributes(d) = FilesOf(rows)
  BY Zenon DEF attributes, Models, as7726_32x_attributes
<1> HIDE DEF rows
<1>3. \A kind, p : File(kind, p).kind = kind /\ File(kind, p).port = p
  BY DEF File
<1>4. CASE f.kind = "present"
  <2>1. KindFiles(d, "present", 1..34)
    <3>1. 1 \in DOMAIN rows /\ \A i \in DOMAIN rows : rows[i].kind = "present" => i = 1
      BY <1>1 DEF Row
    <3> QED
      BY <1>1, <1>2, <3>1, FilesOfKind, Zenon
  <2>2. ASSUME NEW p \in 1..34
        PROVE  ShownAt(d, File("present", p)) =
                 IF p <= 32 THEN InARow("cpld1", 48, p - 1) ELSE At("cpld1", 80, p - 33)
    <3>1. ShownAt(d, File("present", p)) = as7726_32x_show_status(File("present", p))
      BY Zenon DEF ShownAt, Models
    <3> QED
      BY <1>3, <3>1 DEF as7726_32x_show_status
  <2> DEFINE x == [i \in 1..32 |-> InARow("cpld1", 48, i - 1)]
             y == FirstBits("cpld1", 80, 2)
             t == Line(d, "present", "cpld1")
  <2>3. x \in Seq(BitsOf("cpld1")) /\ Len(x) = 32 /\ \A i \in 1..32 : x[i] = InARow("cpld1", 48, i - 1)
    <3>1. \A i \in 1..32 : InARow("cpld1", 48, i - 1) \in BitsOf("cpld1")
      BY DEF InARow, BitsOf
    <3> QED
      BY <3>1
  <2>4. y \in Seq(BitsOf("cpld1")) /\ Len(y) = 2 /\ \A i \in 1..2 : y[i] = At("cpld1", 80, i - 1)
    <3>1. 80 \in Int /\ 2 \in Nat
      OBVIOUS
    <3> QED
      BY <3>1, FirstBitsAre, Zenon
  <2>5. t = x \o y
    BY Zenon DEF Line, show_present_all, Models, as7726_32x_show_present_all
  <2> HIDE DEF x, y, t
  <2>6. Joins(t, x, y)
    <3>1. x \in Seq(BitsOf("cpld1")) /\ y \in Seq(BitsOf("cpld1"))
      BY <2>3, <2>4, Zenon
    <3>2. Joins(x \o y, x, y)
      BY <3>1, Joined, Zenon
    <3> QED
      BY <2>5, <3>2, Zenon
  <2>7. /\ \A i \in 1..32 : t[i] = InARow("cpld1", 48, i - 1)
        /\ \A i \in 1..2 : t[32 + i] = At("cpld1", 80, i - 1)
    BY <2>3, <2>4, <2>6 DEF Joins
  <2>8. ASSUME NEW p \in 1..34
        PROVE  /\ ShownAt(d, File("present", p)).dev = "cpld1"
               /\ t[p - 1 + 1] = ShownAt(d, File("present", p))
    <3>1. CASE p <= 32
      <4>1. p \in 1..32 /\ p - 1 + 1 = p
        BY <3>1
      <4>2. ShownAt(d, File("present", p)) = InARow("cpld1", 48, p - 1)
        BY <2>2, <3>1
      <4>3. t[p - 1 + 1] = InARow("cpld1", 48, p - 1)
        BY <2>7, <4>1, Zenon
      <4> QED
        BY <4>2, <4>3 DEF InARow, At
    <3>2. CASE p > 32
      <4>1. p - 32 \in 1..2 /\ p - 1 + 1 = 32 + (p - 32) /\ (p - 32) - 1 = p - 33
        BY <3>2
      <4>2. ShownAt(d, File("present", p)) = At("cpld1", 80, p - 33)
        BY <2>2, <3>2
      <4>3. t[32 + (p - 32)] = At("cpld1", 80, p - 33)
        BY <2>7, <4>1, Zenon
      <4> QED
        BY <4>1, <4>2, <4>3 DEF At
    <3> QED
      BY <3>1, <3>2
  <2> QED
    BY <1>4, <2>1, <2>8, DeviceInLine DEF t
<1>5. CASE f.kind = "rxlos"
  <2>1. KindFiles(d, "rxlos", 33..34)
    <3>1. 3 \in DOMAIN rows /\ \A i \in DOMAIN rows : rows[i].kind = "rxlos" => i = 3
      BY <1>1 DEF Row
    <3> QED
      BY <1>1, <1>2, <3>1, FilesOfKind, Zenon
  <2>2. ASSUME NEW p \in 33..34
        PROVE  ShownAt(d, File("rxlos", p)) = At("cpld1", 80, p - 33 + 2)
    <3>1. ShownAt(d, File("rxlos", p)) = as7726_32x_show_status(File("rxlos", p))
      BY Zenon DEF ShownAt, Models
    <3> QED
      BY <1>3, <3>1 DEF as7726_32x_show_status
  <2>3. Line(d, "rxlos", "cpld1") = [i \in 1..2 |-> At("cpld1", 80, i + 1)]
    BY Zenon DEF Line, show_rxlos_all, Models, as7726_32x_show_rxlos_all
  <2>4. ASSUME NEW p \in 33..34
        PROVE  /\ ShownAt(d, File("rxlos", p)).dev = "cpld1"
               /\ Line(d, "rxlos", "cpld1")[p - 33 + 1] = ShownAt(d, File("rxlos", p))
    BY <2>2, <2>3 DEF At
  <2> QED
    BY <1>5, <2>1, <2>4, DeviceInLine
<1> QED
  BY <1>4, <1>5

LEMMA Line6712 ==
  ASSUME NEW f \in attributes("as6712_32x"), f.kind \in {"present", "rxlos"}
  PROVE  InLine("as6712_32x", f)
<1> DEFINE d == "as6712_32x"
           rows == as6712_32x_cpld_sysfs_attributes
           ports == 1..32
<1>1. DOMAIN rows = 1..2 /\ rows[1] = Row("present", 1, 32) /\ rows[2] = Row("reset", 1, 32)
  BY DEF as6712_32x_cpld_sysfs_attributes
<1>2. attributes(d) = FilesOf(rows)
  BY Zenon DEF attributes, Models, as6712_32x_attributes
<1> HIDE DEF rows
<1>3. KindFiles(d, "present", ports)
  <2>1. 1 \in DOMAIN rows /\ \A i \in DOMAIN rows : rows[i].kind = "present" => i = 1
    BY <1>1 DEF Row
  <2> QED
    BY <1>1, <1>2, <2>1, FilesOfKind, Zenon
<1>4. f.kind = "present"
  BY <1>1, <1>2, FilesAre DEF Row
<1>5. ASSUME NEW p \in ports
      PROVE  ShownAt(d, File("present", p)) = InARow(as6712_32x_groups(p), 10, (p - 1) % 16)
  <2>1. File("present", p).kind = "present" /\ File("present", p).port = p
    BY DEF File
  <2> QED
    BY <2>1, Zenon DEF ShownAt, Models, as6712_32x_show_status
<1>6. ASSUME NEW p \in ports
      PROVE  ShownAt(d, File("present", p)).dev = as6712_32x_groups(p)
  BY <1>5 DEF InARow, At
<1>7. ASSUME NEW dev \in {"cpld2", "cpld3"}
      PROVE  DevicePorts(d, "present", ports, dev) = IF dev = "cpld2" THEN 1..16 ELSE 17..32
  BY <1>6, <1>7 DEF DevicePorts, as6712_32x_groups
<1>8. ASSUME NEW dev
      PROVE  \A i \in 1..16 : Line(d, "present", dev)[i] = InARow(dev, 10, i - 1)
  <2>1. 10 + 1 = 11 /\ 10 \in Int
    OBVIOUS
  <2>2. Line(d, "present", dev) = Two(dev, 10)
    BY <2>1, Zenon DEF Line, show_present_all, Models, as6712_32x_show_present_all, Two
  <2> QED
    BY <2>1, <2>2, TwoRegisters, Zenon
<1>9. ASSUME NEW p \in ports
      PROVE  PortInLine(d, "present", ports, p)
  <2> DEFINE dev == as6712_32x_groups(p)
             S == DevicePorts(d, "present", ports, dev)
  <2>1. Rank(S, p) \in 1..16 /\ Rank(S, p) - 1 = (p - 1) % 16
    <3>1. CASE p <= 16
      <4>1. p \in 1..16 /\ dev = "cpld2" /\ (p - 1) % 16 = p - 1
        BY <3>1 DEF as6712_32x_groups
      <4>2. S = 1..16
        BY <1>7, <4>1, Zenon
      <4>3. Rank(1..16, p) = p - 1 + 1
        <5>1. 1 \in Int /\ 16 \in Int
          OBVIOUS
        <5> QED
          BY <4>1, <5>1, RankInterval, Zenon
      <4> QED
        BY <4>1, <4>2, <4>3
    <3>2. CASE p > 16
      <4>1. p \in 17..32 /\ dev = "cpld3" /\ (p - 1) % 16 = p - 17
        BY <3>2 DEF as6712_32x_groups
      <4>2. S = 17..32
        BY <1>7, <4>1
      <4>3. Rank(17..32, p) = p - 17 + 1
        <5>1. 17 \in Int /\ 32 \in Int
          OBVIOUS
        <5> QED
          BY <4>1, <5>1, RankInterval, Zenon
      <4> QED
        BY <4>1, <4>2, <4>3
    <3> QED
      BY <3>1, <3>2
  <2>2. Line(d, "present", dev)[Rank(S, p)] = InARow(dev, 10, Rank(S, p) - 1)
    BY <1>8, <2>1, Zenon
  <2> QED
    BY <1>5, <1>6, <2>1, <2>2, Zenon DEF PortInLine
<1> QED
  BY <1>3, <1>4, <1>9, LineInOrder, Zenon

\* On AS7312-54X a device has an SFP block and, after it, a few QSFP ports.
LEMMA Present7312 ==
  ASSUME NEW p \in 1..54, NEW d, d = "as7312_54x"
  PROVE  ShownAt(d, File("present", p)) =
           IF p <= 48 THEN InARow(as7312_54x_groups(p), 9, (p - 1) % 24)
           ELSE At(as7312_54x_groups(p), 24, (p - 49) % 4)
<1>1. File("present", p).kind = "present" /\ File("present", p).port = p
  BY DEF File
<1>2. ShownAt(d, File("present", p)) = as7312_54x_show_status(File("present", p))
  BY Zenon DEF ShownAt, Models
<1> QED
  BY <1>1, <1>2 DEF as7312_54x_show_status

\* The line of what is present: 24 SFP ports and then the QSFP ports.
LEMMA PresentLine7312 ==
  ASSUME NEW d, d = "as7312_54x", NEW dev, NEW n \in Nat, n = IF dev = "cpld2" THEN 4 ELSE 2
  PROVE  /\ \A i \in 1..24 : Line(d, "present", dev)[i] = InARow(dev, 9, i - 1)
         /\ \A i \in 1..n : Line(d, "present", dev)[24 + i] = At(dev, 24, i - 1)
<1> DEFINE x == Three(dev, 9)
           y == FirstBits(dev, 24, n)
           t == Line(d, "present", dev)
<1>1. 9 \in Int /\ 24 \in Int /\ 9 + 1 = 10 /\ 9 + 2 = 11
  OBVIOUS
<1>2. x \in Seq(BitsOf(dev)) /\ Len(x) = 24 /\ \A i \in 1..24 : x[i] = InARow(dev, 9, i - 1)
  BY <1>1, ThreeRegisters, Zenon
<1>3. y \in Seq(BitsOf(dev)) /\ Len(y) = n /\ \A i \in 1..n : y[i] = At(dev, 24, i - 1)
  BY <1>1, FirstBitsAre, Zenon
<1>4. t = x \o y
  <2>1. t = as7312_54x_show_present_all(dev)
    BY Zenon DEF Line, show_present_all, Models
  <2>2. x = FirstBits(dev, 9, 8) \o FirstBits(dev, 10, 8) \o FirstBits(dev, 11, 8)
    BY <1>1, Zenon DEF Three, Two
  <2> QED
    BY <2>1, <2>2, Zenon DEF as7312_54x_show_present_all
<1> HIDE DEF x, y, t
<1>5. Joins(t, x, y)
  BY <1>2, <1>3, <1>4, Joined, Zenon
<1>6. /\ \A i \in 1..24 : t[i] = InARow(dev, 9, i - 1)
      /\ \A i \in 1..n : t[24 + i] = At(dev, 24, i - 1)
  BY <1>2, <1>3, <1>5 DEF Joins
<1> QED
  BY <1>6, Zenon DEF t

LEMMA Present7312InLine ==
  ASSUME NEW d, d = "as7312_54x", NEW p \in 1..54
  PROVE  PortInLine(d, "present", 1..54, p)
<1> DEFINE dev == as7312_54x_groups(p)
           S == DevicePorts(d, "present", 1..54, dev)
           t == Line(d, "present", dev)
<1>1. ASSUME NEW q \in 1..54
      PROVE  ShownAt(d, File("present", q)).dev = as7312_54x_groups(q)
  BY Present7312 DEF InARow, At
<1>2. S = {q \in 1..54 : as7312_54x_groups(q) = dev}
  BY <1>1, Zenon DEF DevicePorts
<1>3. dev \in {"cpld2", "cpld3"}
  BY DEF as7312_54x_groups
<1>4. /\ dev = "cpld2" => S = (1..24) \cup (49..52)
      /\ dev = "cpld3" => S = (25..48) \cup (53..54)
  <2>1. \A q \in 1..54 : as7312_54x_groups(q) = IF q \in (1..24) \cup (49..52) THEN "cpld2" ELSE "cpld3"
    BY DEF as7312_54x_groups
  <2>2. CASE dev = "cpld2"
    BY <1>2, <2>1, <2>2
  <2>3. CASE dev = "cpld3"
    BY <1>2, <2>1, <2>3
  <2> QED
    BY <2>2, <2>3
<1>5. p \in S
  BY <1>2
<1>6. \/ dev = "cpld2" /\ p \in 1..24 /\ Rank(S, p) = p
      \/ dev = "cpld2" /\ p \in 49..52 /\ Rank(S, p) = 24 + (p - 48)
      \/ dev = "cpld3" /\ p \in 25..48 /\ Rank(S, p) = p - 24
      \/ dev = "cpld3" /\ p \in 53..54 /\ Rank(S, p) = 24 + (p - 52)
  <2>1. CASE dev = "cpld2"
    <3>1. p \in S /\ S = (1..24) \cup (49..52)
      BY <1>4, <1>5, <2>1
    <3>2. Rank(S, p) = IF p <= 24 THEN p - 1 + 1 ELSE (24 - 1 + 1) + (p - 49 + 1)
      <4>1. TwoIntervals(S, 1, 24, 49, 52)
        BY <3>1 DEF TwoIntervals
      <4>2. Rank(S, p) = RankOfTwo(1, 24, 49, p)
        BY <1>5, <4>1, RankIntervals
      <4> QED
        BY <4>2 DEF RankOfTwo
    <3> QED
      BY <1>4, <2>1, <3>1, <3>2
  <2>2. CASE dev = "cpld3"
    <3>1. p \in S /\ S = (25..48) \cup (53..54)
      BY <1>4, <1>5, <2>2
    <3>2. Rank(S, p) = IF p <= 48 THEN p - 25 + 1 ELSE (48 - 25 + 1) + (p - 53 + 1)
      <4>1. TwoIntervals(S, 25, 48, 53, 54)
        BY <3>1 DEF TwoIntervals
      <4>2. Rank(S, p) = RankOfTwo(25, 48, 53, p)
        BY <1>5, <4>1, RankIntervals
      <4> QED
        BY <4>2 DEF RankOfTwo
    <3> QED
      BY <1>4, <2>2, <3>1, <3>2
  <2> QED
    BY <1>3, <2>1, <2>2
<1> DEFINE n == IF dev = "cpld2" THEN 4 ELSE 2
<1>7. /\ \A i \in 1..24 : t[i] = InARow(dev, 9, i - 1)
      /\ \A i \in 1..n : t[24 + i] = At(dev, 24, i - 1)
  <2>1. n \in Nat
    OBVIOUS
  <2> QED
    BY <2>1, PresentLine7312, Zenon
<1>8. ShownAt(d, File("present", p)) =
        IF p <= 48 THEN InARow(dev, 9, (p - 1) % 24) ELSE At(dev, 24, (p - 49) % 4)
  BY Present7312
<1> HIDE DEF S, t, dev
<1>9. t[Rank(S, p)] = ShownAt(d, File("present", p))
  <2>1. CASE p <= 48
    <3>1. Rank(S, p) \in 1..24 /\ Rank(S, p) - 1 = (p - 1) % 24
      BY <1>6, <2>1
    <3>2. t[Rank(S, p)] = InARow(dev, 9, Rank(S, p) - 1)
      BY <1>7, <3>1, Zenon
    <3> QED
      BY <1>8, <2>1, <3>1, <3>2
  <2>2. CASE p > 48
    <3> DEFINE i == Rank(S, p) - 24
    <3>1. i \in 1..n /\ 24 + i = Rank(S, p) /\ i - 1 = (p - 49) % 4
      BY <1>6, <2>2
    <3>2. ShownAt(d, File("present", p)) = At(dev, 24, (p - 49) % 4)
      BY <1>8, <2>2
    <3> HIDE DEF i
    <3>3. t[24 + i] = At(dev, 24, i - 1)
      BY <1>7, <3>1, Zenon
    <3> QED
      BY <3>1, <3>2, <3>3, Zenon
  <2> QED
    BY <2>1, <2>2
<1> QED
  BY <1>1, <1>9, Zenon DEF PortInLine, S, t, dev

LEMMA Rxlos7312InLine ==
  ASSUME NEW d, d = "as7312_54x", NEW p \in 1..48
  PROVE  PortInLine(d, "rxlos", 1..48, p)
<1> DEFINE dev == as7312_54x_groups(p)
           S == DevicePorts(d, "rxlos", 1..48, dev)
           t == Line(d, "rxlos", dev)
<1>1. ASSUME NEW q \in 1..48
      PROVE  ShownAt(d, File("rxlos", q)) = InARow(as7312_54x_groups(q), 18, (q - 1) % 24)
  <2>1. File("rxlos", q).kind = "rxlos" /\ File("rxlos", q).port = q
    BY DEF File
  <2>2. ShownAt(d, File("rxlos", q)) = as7312_54x_show_status(File("rxlos", q))
    BY Zenon DEF ShownAt, Models
  <2> QED
    BY <2>1, <2>2 DEF as7312_54x_show_status
<1>2. ASSUME NEW q \in 1..48
      PROVE  ShownAt(d, File("rxlos", q)).dev = IF q <= 24 THEN "cpld2" ELSE "cpld3"
  BY <1>1 DEF InARow, At, as7312_54x_groups
<1>3. Rank(S, p) \in 1..24 /\ Rank(S, p) - 1 = (p - 1) % 24
  <2>1. CASE p <= 24
    <3>1. dev = "cpld2" /\ p \in 1..24 /\ (p - 1) % 24 = p - 1
      BY <2>1 DEF as7312_54x_groups
    <3>2. S = 1..24
      BY <1>2, <3>1 DEF DevicePorts
    <3>3. Rank(1..24, p) = p - 1 + 1
      <4>1. 1 \in Int /\ 24 \in Int
        OBVIOUS
      <4> QED
        BY <3>1, <4>1, RankInterval, Zenon
    <3>4. Rank(S, p) = p - 1 + 1
      BY <3>2, <3>3, Zenon
    <3> HIDE DEF S
    <3> QED
      BY <3>1, <3>4
  <2>2. CASE p > 24
    <3>1. dev = "cpld3" /\ p \in 25..48 /\ (p - 1) % 24 = p - 25
      BY <2>2 DEF as7312_54x_groups
    <3>2. S = 25..48
      BY <1>2, <3>1 DEF DevicePorts
    <3>3. Rank(25..48, p) = p - 25 + 1
      <4>1. 25 \in Int /\ 48 \in Int
        OBVIOUS
      <4> QED
        BY <3>1, <4>1, RankInterval, Zenon
    <3>4. Rank(S, p) = p - 25 + 1
      BY <3>2, <3>3, Zenon
    <3> HIDE DEF S
    <3> QED
      BY <3>1, <3>4
  <2> QED
    BY <2>1, <2>2
<1>4. \A i \in 1..24 : t[i] = InARow(dev, 18, i - 1)
  <2>1. 18 \in Int /\ 18 + 1 = 19 /\ 18 + 2 = 20
    OBVIOUS
  <2>2. t = as7312_54x_show_rxlos_all(dev)
    BY Zenon DEF Line, show_rxlos_all, Models
  <2>3. t = Three(dev, 18)
    BY <2>1, <2>2, Zenon DEF Three, Two, as7312_54x_show_rxlos_all
  <2> QED
    BY <2>1, <2>3, ThreeRegisters, Zenon
<1>5. ShownAt(d, File("rxlos", p)).dev = dev
  BY <1>1 DEF InARow, At
<1>6. t[Rank(S, p)] = ShownAt(d, File("rxlos", p))
  BY <1>1, <1>3, <1>4, Zenon
<1> QED
  BY <1>5, <1>6, Zenon DEF PortInLine

LEMMA Line7312 ==
  ASSUME NEW f \in attributes("as7312_54x"), f.kind \in {"present", "rxlos"}
  PROVE  InLine("as7312_54x", f)
<1> DEFINE d == "as7312_54x"
           rows == as7312_54x_cpld_sysfs_attributes
<1>1. /\ DOMAIN rows = 1..5
      /\ rows[1] = Row("present", 1, 54) /\ rows[2] = Row("reset", 49, 54)
      /\ rows[3] = Row("txdisable", 1, 48) /\ rows[4] = Row("rxlos", 1, 48)
      /\ rows[5] = Row("txfault", 1, 48)
  BY DEF as7312_54x_cpld_sysfs_attributes
<1>2. attributes(d) = FilesOf(rows)
  BY Zenon DEF attributes, Models, as7312_54x_attributes
<1> HIDE DEF rows
<1>3. KindFiles(d, "present", 1..54)
  <2>1. 1 \in DOMAIN rows /\ \A i \in DOMAIN rows : rows[i].kind = "present" => i = 1
    BY <1>1 DEF Row
  <2> QED
    BY <1>1, <1>2, <2>1, FilesOfKind, Zenon
<1>4. KindFiles(d, "rxlos", 1..48)
  <2>1. 4 \in DOMAIN rows /\ \A i \in DOMAIN rows : rows[i].kind = "rxlos" => i = 4
    BY <1>1 DEF Row
  <2> QED
    BY <1>1, <1>2, <2>1, FilesOfKind, Zenon
<1>5. CASE f.kind = "present"
  BY <1>3, <1>5, Present7312InLine, LineInOrder, Zenon
<1>6. CASE f.kind = "rxlos"
  BY <1>4, <1>6, Rxlos7312InLine, LineInOrder, Zenon
<1> QED
  BY <1>5, <1>6

\* module_present_all and rx_los_all of AS7312-54X, AS7726-32X, AS7716-32X,
\* AS6712-32X give, port by port and in their order, what the files
\* module_present_n and module_rx_los_n give one by one, and those of the shared
\* driver for AS7712-32X and AS7716-32X give the same bits, complemented.
THEOREM LinesInOrder == Spec => []AllInOrder
<1>1. Init => AllInOrder
  <2> DEFINE own == {"as7312_54x", "as7726_32x", "as7716_32x", "as6712_32x"}
             shared == {"cpld_as7712", "cpld_as7716"}
  <2>1. ASSUME NEW d \in own
        PROVE  d \in InOrder \cap SameValues
    <3>1. d \in AllDrivers \ {"as7712_32x_sfp"} /\ d \notin Models
      BY DEF AllDrivers, CpldDrivers, Models
    <3>2. ASSUME NEW f \in LineFiles(d)
          PROVE  InLine(d, f) /\ LineInverts(d, f.kind) = ShowInverts(d, f)
      <4>1. f \in attributes(d) /\ f.kind \in {"present", "rxlos"}
        BY Zenon DEF LineFiles
      <4>2. InLine(d, f)
        BY <4>1, Line7312, Line7726, Line7716, Line6712
      <4> QED
        BY <4>1, <4>2 DEF LineInverts, ShowInverts, Models
    <3> QED
      BY <3>1, <3>2, Zenon DEF InOrder, SameValues
  <2>2. ASSUME NEW d \in shared
        PROVE  d \in InOrder \ SameValues
    <3>1. d \in AllDrivers \ {"as7712_32x_sfp"} /\ d \in Models \ {"cpld_as7816"}
      BY DEF AllDrivers, Models
    <3>2. \A f \in LineFiles(d) : InLine(d, f)
      BY <3>1, LineModels, Zenon DEF LineFiles
    <3>3. PICK f \in LineFiles(d) : f.kind = "present"
      <4> DEFINE rows == <<Row("present", 1, get_sfp_spec(d)), Row("reset", 1, get_sfp_spec(d))>>
      <4>1. /\ 1 \in DOMAIN rows /\ rows[1] = Row("present", 1, get_sfp_spec(d))
            /\ \A i \in DOMAIN rows : rows[i].kind = "present" => i = 1
        BY DEF Row
      <4>2. attributes(d) = FilesOf(rows)
        BY <3>1, Zenon DEF attributes, Models, add_attributes_portly
      <4>3. KindFiles(d, "present", 1..get_sfp_spec(d))
        <5> HIDE DEF rows
        <5> QED
          BY <4>1, <4>2, FilesOfKind, Zenon
      <4>4. 1 \in 1..get_sfp_spec(d)
        BY DEF get_sfp_spec
      <4>5. File("present", 1) \in attributes(d) /\ File("present", 1).kind = "present"
        BY <4>3, <4>4, Zenon DEF KindFiles, File
      <4> QED
        BY <4>5, Zenon DEF LineFiles
    <3>4. ~LineInverts(d, f.kind) /\ ShowInverts(d, f)
      BY <3>1, <3>3 DEF LineInverts, ShowInverts
    <3> QED
      BY <3>1, <3>2, <3>4, Zenon DEF InOrder, SameValues
  <2> QED
    BY <2>1, <2>2, Zenon DEF AllInOrder
<1>2. AllInOrder /\ [Next]_vars => AllInOrder'
  <2> SUFFICES ASSUME [Next]_vars
               PROVE  drv' = drv
    BY Zenon DEF AllInOrder
  <2> QED
    BY Zenon DEF vars, Next, Step, Call, Lock, Read, ReadFails, Write, WriteFails
<1> QED
  BY <1>1, <1>2, PTL DEF Spec

=============================================================================
