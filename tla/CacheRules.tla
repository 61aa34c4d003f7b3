------------------------------ MODULE CacheRules ------------------------------
(***************************************************************************)
(* The drivers with a cache, all of them, and the rules their functions     *)
(* keep: what update_device reads whatever happens, what is written under   *)
(* the lock, and that a file shows what its store wrote.  TLC looks at      *)
(* every statement of every driver for them.  CachedDrivers runs the        *)
(* drivers; that its properties follow from the rules is proved.            *)
(***************************************************************************)
EXTENDS LedTables, PmbusTables

Table ==
  ("as5712_54x_leds" :> as5712_54x_leds) @@ ("as5812_54t_leds" :> as5812_54t_leds)
    @@ ("as6712_32x_leds" :> as6712_32x_leds) @@ ("as7312_54x_leds" :> as7312_54x_leds)
    @@ ("as7326_56x_leds" :> as7326_56x_leds) @@ ("as7712_32x_leds" :> as7712_32x_leds)
    @@ ("as7716_32x_leds" :> as7716_32x_leds) @@ ("as7716_32xb_leds" :> as7716_32xb_leds)
    @@ ("as7726_32x_leds" :> as7726_32x_leds) @@ ("as7816_64x_leds" :> as7816_64x_leds)
    @@ ("as5812_54t_fan" :> accton_as5812_54t_fan) @@ ("as6712_32x_fan" :> accton_as6712_32x_fan)
    @@ ("as7312_54x_fan" :> as7312_54x_fan) @@ ("as7326_56x_fan" :> as7326_56x_fan)
    @@ ("as7712_32x_fan" :> as7712_32x_fan) @@ ("as7716_32x_fan" :> as7716_32x_fan)
    @@ ("as7716_32xb_fan" :> as7716_32xb_fan) @@ ("as7726_32x_fan" :> as7726_32x_fan)
    @@ ("as7816_64x_fan" :> as7816_64x_fan)
    @@ ("as5712_54x_psu" :> as5712_54x_psu) @@ ("as5812_54t_psu" :> as5812_54t_psu)
    @@ ("as6712_32x_psu" :> as6712_32x_psu) @@ ("as7312_54x_psu" :> as7312_54x_psu)
    @@ ("as7326_56x_psu" :> as7326_56x_psu) @@ ("as7712_32x_psu" :> as7712_32x_psu)
    @@ ("as7716_32x_psu" :> as7716_32x_psu) @@ ("as7716_32xb_psu" :> as7716_32xb_psu)
    @@ ("as7726_32x_psu" :> as7726_32x_psu) @@ ("as7816_64x_psu" :> as7816_64x_psu)
    @@ ("as5712_54x_ym2651y" :> as5712_54x_ym2651y) @@ ("as5812_54t_ym2651y" :> as5812_54t_ym2651y)
    @@ ("as7716_32x_ym2651y" :> as7716_32x_ym2651y) @@ ("as7726_32x_ym2651y" :> as7726_32x_ym2651y)
    @@ ("common_ym2651y" :> common_ym2651y)
    @@ ("as5712_54x_cpr_4011_4mxx" :> as5712_54x_cpr_4011_4mxx)
    @@ ("as7716_32x_cpr_4011_4mxx" :> as7716_32x_cpr_4011_4mxx)
    @@ ("common_cpr_4011_4mxx" :> common_cpr_4011_4mxx)
    @@ ("as7716_32xb_pmbus" :> as7716_32xb_pmbus) @@ ("as7716_32xb_thermal" :> as7716_32xb_thermal)
    @@ ("as7716_32xb_sys" :> as7716_32xb_sys) @@ ("as7716_32xb_oom" :> as7716_32xb_oom)

-----------------------------------------------------------------------------
OfLed(c) == c[1] \in {"led_reg", "port_led"}

\* The cells that statements of these kinds are about, and those of the cache.
CellsOf(g, kinds) == UNION {g[i].cells : i \in {j \in DOMAIN g : g[j].do \in kinds}}
CacheCells(r) == CellsOf(r, {"read", "store"})

\* What a file shows of such values of its cells.
ShownBy(f, of) ==
  LET value(i) == of[f.of[i]]
  IN  CASE f.shows = "is"   -> IF value(1) = {} THEN 0 ELSE 1
        [] f.shows = "not"  -> IF value(1) = {} THEN 1 ELSE 0
        [] f.shows = "both" -> IF value(1) # {} /\ value(2) # {} THEN 0 ELSE 1
        [] f.shows = "mode" -> led_reg_val_to_light_mode(f, value(1))

\* The cells of a file's answer, and the bits of them that are its own.
ShownCells(f) == {f.of[i] : i \in DOMAIN f.of}
OwnBits(f) == IF f.shows = "mode" THEN f.mask ELSE AllBits

\* The programs of a file: of its show, and of its stores.
Programs(f) == {f.show} \cup UNION {f.set[v] : v \in DOMAIN f.set}

\* A store writes what its own file shows, and so does every store of v in f.
\* It does not where it was led to another register (diag of the boards with one
\* register for LEDs), where register functions are stubs (LEDs of AS7716-32XB),
\* where it goes to memory another file or none shows (psu_mfr_vout_min, the
\* fan's duty cycle and fault, and power1_input of the supplies, fault of the
\* fans and the limits of the thermal driver, all of AS7716-32XB), and where the
\* brightness is that of no mode.
ReachesItself(f, g) ==
  \E i \in DOMAIN g : \/ g[i].do = "write" /\ g[i].own
                      \/ f.home = "cache" /\ g[i].do = "put" /\ ShownCells(f) \subseteq g[i].cells

Lands(f, v) == \A g \in f.set[v] : ReachesItself(f, g)

\* A function that takes the lock itself takes it first and lets go of it last.
Locked(g) == g[1].do = "lock"

-----------------------------------------------------------------------------
(* The form of update_device, and of the programs of shows and stores.       *)

IsCode(g) == g \in Seq({g[i] : i \in DOMAIN g}) /\ g # <<>>

\* It marks the cache as valid last, and lets go of the lock.
RefreshForm(r) ==
  /\ IsCode(r)
  /\ \A i \in DOMAIN r :
       /\ r[i].do \in {"clear", "blank", "read", "fetch", "store", "when", "unlessall",
                       "giveup", "done", "unlock"}
       /\ r[i].do = "unlock" <=> i = Len(r)
       /\ r[i].do = "done" <=> i = Len(r) - 1
       /\ r[i].skip \in Nat
       /\ r[i].do \notin {"when", "unlessall"} => r[i].skip = 0
       /\ r[i].do \notin {"done", "unlock"} => i + r[i].skip < Len(r) - 1
       /\ r[i].do = "read" => r[i].otherwise # "errno"

ProgramForm(g) ==
  /\ IsCode(g)
  /\ \A i \in DOMAIN g :
       /\ g[i].do \in {"update", "lock", "unlock", "check", "when", "blank", "read", "get",
                       "put", "write", "clear", "answer"}
       /\ g[i].do \in {"update", "lock"} => i = 1
       /\ g[i].do = "unlock" <=> Locked(g) /\ i = Len(g)
       /\ Locked(g) => g[i].do \notin {"check", "when", "blank", "read"}
       /\ g[i].skip \in Nat
       /\ g[i].do \in {"put", "write"} => g[i].bits \subseteq AllBits
       /\ g[i].do = "write" => g[i].own \in BOOLEAN
       /\ g[i].do = "get" => /\ i < Len(g) /\ g[i + 1].do \in {"write", "answer"}
                             /\ \E c \in g[i].cells : g[i].cells = {c}

-----------------------------------------------------------------------------
(* The rules of a driver d.                                                  *)

\* From i on, the refresh does one of kinds to c, whatever is left out.
Comes(r, i, c, kinds) ==
  \E j \in i..Len(r) :
    /\ r[j].do \in kinds /\ c \in r[j].cells
    /\ \A k \in i..(j - 1) : k + r[k].skip < j

Filling == {"blank", "read", "store"}

\* A refresh that is not given up fills every cell; what it stores it has fetched,
\* and stores again whenever it was fetched again.
FillsAll(r) ==
  /\ \A c \in CacheCells(r) : Comes(r, 1, c, Filling)
  /\ \A c \in CellsOf(r, {"store"}) : Comes(r, 1, c, {"fetch"})
  /\ \A i \in DOMAIN r : r[i].do = "fetch" =>
       \A c \in r[i].cells : Comes(r, i + 1, c, {"store"})
  /\ CellsOf(r, {"read"}) \cap CellsOf(r, {"store"}) = {}

\* The cells of the cache are left alone outside of update_device, but for what
\* is put there under the lock to be written with it, and a write under the lock
\* is of what was put there, or is followed by valid = 0.
LeavesCache(r, g) ==
  /\ CellsOf(g, {"blank", "read"}) \cap CacheCells(r) = {}
  /\ \A i \in DOMAIN g :
       g[i].do = "put" /\ g[i].cells \cap CacheCells(r) # {} =>
         /\ Locked(g) /\ i < Len(g)
         /\ g[i + 1].do = "write" /\ g[i + 1].cells = g[i].cells
         /\ g[i + 1].mask = AllBits /\ g[i + 1].bits = g[i].bits
  /\ \A i \in DOMAIN g :
       Locked(g) /\ g[i].do = "write" /\ g[i].cells \cap CacheCells(r) # {} =>
         \/ g[i + 1].do = "clear"
         \/ i > 1 /\ g[i - 1].do = "put" /\ g[i - 1].cells = g[i].cells

\* Registers in which only some bits are replaced.
SharedCells(d) ==
  UNION {UNION {g[i].cells : i \in {j \in DOMAIN g : g[j].do = "write" /\ g[j].mask # AllBits}} :
           g \in UNION {Programs(d.files[f]) : f \in DOMAIN d.files}}

\* They are read and written under the lock.
KeepsOthers(shared, g) ==
  /\ ~Locked(g) => CellsOf(g, {"write"}) \cap shared = {}
  /\ \A i \in DOMAIN g : g[i].do = "write" /\ g[i].mask # AllBits =>
       /\ i > 1 /\ g[i - 1].do = "get" /\ g[i - 1].cells = g[i].cells
       /\ g[i - 1].otherwise # "errno"
       /\ g[i].bits \subseteq g[i].mask
       /\ \A c \in g[i].cells : OfLed(c)

\* The program of the store of v in f writes what f shows as v, and no bits of
\* another file that are not also f's; it answers nothing.
WritesItsOwn(d, f, v, g) ==
  \A i \in DOMAIN g :
    /\ g[i].do # "answer"
    /\ g[i].do = "write" /\ g[i].own =>
         /\ f.home = "chip" /\ ShownCells(f) \subseteq g[i].cells
         /\ OwnBits(f) \subseteq g[i].mask
         /\ ShownBy(f, [c \in ShownCells(f) |-> g[i].bits]) = v
         /\ \A e \in DOMAIN d.files :
              /\ g[i].cells \cap d.files[e].watch # {}
              /\ OwnBits(f) \cap OwnBits(d.files[e]) = {}
              => g[i].mask \cap OwnBits(d.files[e]) = {}
    /\ g[i].do = "put" /\ f.home = "cache" /\ g[i].cells \cap f.watch # {} =>
         ShownCells(f) \subseteq g[i].cells /\ ShownBy(f, [c \in ShownCells(f) |-> g[i].bits]) = v

\* What the driver keeps itself is not read from the device.
KeptApart(d, f) ==
  f.home = "cache" =>
    /\ f.shows # "mode" /\ f.from = "cache"
    /\ f.watch \cap CellsOf(d.refresh, Filling) = {}
    /\ \A e \in DOMAIN d.files : \A g \in Programs(d.files[e]) :
         f.watch \cap CellsOf(g, {"blank", "read"}) = {}

\* Of a file that is stored in, a show answers from the cache after update_device,
\* or from the register it has just read, which is not in the cache.
ShowsAfresh(d, f) ==
  f.home = "chip" /\ DOMAIN f.set # {} =>
    \/ /\ f.from = "cache"
       /\ f.show[1].do = "update" /\ ShownCells(f) \subseteq CacheCells(d.refresh)
    \/ /\ f.from = "got"
       /\ Len(f.show) = 2 /\ f.show[1].do = "get" /\ f.show[1].cells = ShownCells(f)
       /\ \A c \in ShownCells(f) :
            /\ c \notin CellsOf(d.refresh, {"read", "fetch"})
            /\ \A e \in DOMAIN d.files : \A g \in Programs(d.files[e]) :
                 c \notin CellsOf(g, {"read"})

\* A show that looks at valid does so after update_device, which passes over no
\* register that cannot be read.  What is not in the cache it fills itself.
LooksAtValid(r, f) ==
  (\E i \in DOMAIN f.show : f.show[i].do = "check") =>
    /\ \A i \in DOMAIN r : r[i].do \in {"read", "fetch"} => r[i].otherwise # "keep"
    /\ \A i \in DOMAIN f.show : f.show[i].do = "check" <=> i = 2
    /\ f.show[1].do = "update"
    /\ \A c \in ShownCells(f) \ CacheCells(r) :
         /\ Len(f.show) > 3
         /\ f.show[3].do = "when" /\ 3 + f.show[3].skip = Len(f.show)
         /\ f.show[4].do = "blank" /\ c \in f.show[4].cells

FileForm(f) ==
  /\ f.shows \in {"is", "not", "both", "mode"} /\ f.home \in {"chip", "cache"}
  /\ OwnBits(f) # {} /\ OwnBits(f) \subseteq AllBits
  /\ \A i \in DOMAIN f.show : f.show[i].do = "write" => ~f.show[i].own
  /\ 1 \in DOMAIN f.of /\ (f.shows = "both" => 2 \in DOMAIN f.of)
  /\ ShownCells(f) \subseteq f.watch
  /\ f.shows # "mode" => \A g \in Programs(f) : \A i \in DOMAIN g :
       g[i].do = "write" /\ g[i].own => g[i].mask = AllBits
  /\ \A g \in Programs(f) : \A i \in DOMAIN g :
       g[i].do = "get" /\ g[i].otherwise = "errno" => g[i].cells \subseteq f.watch

KeepsRules(d) ==
  /\ RefreshForm(d.refresh) /\ FillsAll(d.refresh)
  /\ LET shared == SharedCells(d)
     IN  \A e \in DOMAIN d.files :
           LET f == d.files[e]
           IN  /\ FileForm(f) /\ KeptApart(d, f) /\ ShowsAfresh(d, f)
               /\ LooksAtValid(d.refresh, f)
               /\ \A g \in Programs(f) :
                    ProgramForm(g) /\ LeavesCache(d.refresh, g) /\ KeepsOthers(shared, g)
               /\ \A v \in DOMAIN f.set : \A g \in f.set[v] : WritesItsOwn(d, f, v, g)

ASSUME RulesAreKept == \A n \in DOMAIN Table : KeepsRules(Table[n])
=============================================================================
