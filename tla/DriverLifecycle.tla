---------------------------- MODULE DriverLifecycle ----------------------------
(***************************************************************************)
(* A driver module is loaded and unloaded, its device made and deleted, and *)
(* meanwhile processes read its files and call its exported functions.  The *)
(* steps of probe and remove, and what is undone when one fails, are those  *)
(* of DriverTables; a behaviour is about one driver, drv.                   *)
(***************************************************************************)
EXTENDS DriverTables, Functions

CONSTANTS Drivers,   \* the drivers a run looks at
          Process,   \* processes that use the driver
          MayFail    \* the steps that may fail

ASSUME DriversAssumption == Drivers \subseteq DOMAIN Driver

Resource == {"drv", "pdev", "data", "ready", "files", "bin", "hwmon", "client", "attrs",
             "part", "buf", "mux", "port", "dummy"} \cup Leds

Nowhere == "nowhere"

VARIABLES drv,     \* the driver
          doing,   \* what the module is in the middle of
          left,    \* the steps of it that are left
          held,    \* what the driver has acquired and not given back
          loaded,  \* is the module loaded?
          bound,   \* does its device have a driver, that is, did probe return 0?
          inside   \* the way each process has come into the driver

vars == <<drv, doing, left, held, loaded, bound, inside>>

TypeOK ==
  /\ drv \in Drivers
  /\ doing \in {"rest", "init", "probe", "undo_init", "undo_probe", "remove", "exit"}
  /\ left \in Seq(Resource)
  /\ held \subseteq Resource
  /\ loaded \in BOOLEAN /\ bound \in BOOLEAN
  /\ inside \in [Process -> Ways \cup {Nowhere}]

Init ==
  /\ drv \in Drivers
  /\ doing = "rest" /\ left = <<>>
  /\ held = {}
  /\ loaded = FALSE /\ bound = FALSE
  /\ inside = [p \in Process |-> Nowhere]

D == Driver[drv]

IsPlatform == D.init # <<"drv">>

\* The LED modules of AS7716-32X and AS7716-32XB return 0 from probe and from
\* init also when a step has failed.
SaysAllIsWell == drv \in {"as7716_32x_led", "as7716_32xb_led"}

GoingBack == doing \in {"undo_init", "undo_probe", "remove", "exit"}

Begin(what, steps) == doing' = what /\ left' = steps

\* insmod: module_init.
Load ==
  /\ doing = "rest" /\ ~loaded
  /\ Begin("init", D.init)
  /\ UNCHANGED <<drv, held, loaded, bound, inside>>

\* A device is made for a driver of i2c devices: echo name addr > new_device.
NewDevice ==
  /\ doing = "rest" /\ loaded /\ ~bound /\ ~IsPlatform
  /\ Begin("probe", D.probe)
  /\ UNCHANGED <<drv, held, loaded, bound, inside>>

\* A step succeeds.  New data is not ready for use.
Acquire ==
  /\ doing \in {"init", "probe"} /\ left # <<>>
  /\ held' = (IF Head(left) = "data" THEN held \ {"ready"} ELSE held) \cup {Head(left)}
  /\ left' = Tail(left)
  /\ UNCHANGED <<drv, doing, loaded, bound, inside>>

\* A step fails, and the goto undoes the steps before it.
Fails ==
  /\ doing \in {"init", "probe"} /\ left # <<>>
  /\ Head(left) \in MayFail \ (Settings \cup {"client"})
  /\ IF doing = "init" THEN Begin("undo_init", D.initFails[Head(left)])
                       ELSE Begin("undo_probe", D.probeFails[Head(left)])
  /\ UNCHANGED <<drv, held, loaded, bound, inside>>

\* Wedge100BF-65X puts its attributes one by one into an array that grows.  If
\* it cannot grow once more, probe leaves by the label behind the one that frees
\* it: "part" is what there is of the array.
FailsHalfway ==
  /\ drv = "accton_wedge100bf"
  /\ doing = "probe" /\ left # <<>> /\ Head(left) = "attrs"
  /\ "attrs" \in MayFail
  /\ held' = held \cup {"part"}
  /\ Begin("undo_probe", D.probeFails["attrs"])
  /\ UNCHANGED <<drv, loaded, bound, inside>>

\* No memory for the node of the list: add_client returns, probe goes on.
AddClientFails ==
  /\ doing = "probe" /\ left # <<>> /\ Head(left) = "client"
  /\ "client" \in MayFail
  /\ left' = Tail(left)
  /\ UNCHANGED <<drv, doing, held, loaded, bound, inside>>

\* What is given back: for a way into the driver, the kernel (or list_lock)
\* waits for those that are inside; the data takes what is stored in it along.
Release ==
  /\ GoingBack /\ left # <<>>
  /\ \A p \in Process : inside[p] # Head(left)
  /\ held' = held \ (IF Head(left) = "data" THEN {"data", "ready"} ELSE {Head(left)})
  /\ left' = Tail(left)
  /\ UNCHANGED <<drv, doing, loaded, bound, inside>>

\* The platform device is there, and the kernel calls the probe of the driver
\* before platform_device_register_simple returns, whatever probe says.
InitDone ==
  /\ doing = "init" /\ left = <<>>
  /\ loaded' = TRUE
  /\ IF IsPlatform THEN Begin("probe", D.probe) ELSE Begin("rest", <<>>)
  /\ UNCHANGED <<drv, held, bound, inside>>

ProbeDone ==
  /\ doing = "probe" /\ left = <<>>
  /\ Begin("rest", <<>>)
  /\ bound' = TRUE
  /\ UNCHANGED <<drv, held, loaded, inside>>

UndoDone ==
  /\ doing \in {"undo_init", "undo_probe"} /\ left = <<>>
  /\ Begin("rest", <<>>)
  /\ loaded' = (loaded \/ SaysAllIsWell)
  /\ bound' = (doing = "undo_probe" /\ SaysAllIsWell)
  /\ UNCHANGED <<drv, held, inside>>

\* The device is deleted: echo addr > delete_device.
DeleteDevice ==
  /\ doing = "rest" /\ bound /\ ~IsPlatform
  /\ Begin("remove", D.remove)
  /\ UNCHANGED <<drv, held, loaded, bound, inside>>

\* rmmod: module_exit.  The kernel calls remove for a device that is bound.
Unload ==
  /\ doing = "rest" /\ loaded
  /\ Begin("exit", (IF bound THEN D.remove ELSE <<>>) \o D.exit)
  /\ UNCHANGED <<drv, held, loaded, bound, inside>>

RemoveDone ==
  /\ doing \in {"remove", "exit"} /\ left = <<>>
  /\ Begin("rest", <<>>)
  /\ bound' = FALSE
  /\ loaded' = (loaded /\ doing = "remove")
  /\ UNCHANGED <<drv, held, inside>>

\* A process opens a file and its show or store runs, or it calls an exported
\* function and finds the client in the list.  A way that is being taken back
\* lets nobody new in.
Enter(p) ==
  /\ inside[p] = Nowhere
  /\ \E way \in held \cap Ways :
       /\ ~(GoingBack /\ left # <<>> /\ way = Head(left))
       /\ inside' = [inside EXCEPT ![p] = way]
  /\ UNCHANGED <<drv, doing, left, held, loaded, bound>>

Leave(p) ==
  /\ inside[p] # Nowhere
  /\ inside' = [inside EXCEPT ![p] = Nowhere]
  /\ UNCHANGED <<drv, doing, left, held, loaded, bound>>

Next ==
  \/ Load \/ NewDevice \/ Acquire \/ Release
  \/ Fails \/ FailsHalfway \/ AddClientFails
  \/ InitDone \/ ProbeDone \/ UndoDone \/ DeleteDevice \/ Unload \/ RemoveDone
  \/ \E p \in Process : Enter(p) \/ Leave(p)

Spec == Init /\ [][Next]_vars

-----------------------------------------------------------------------------
(* Properties.                                                               *)

\* What stays behind when a driver has gone, and nothing else does.  Remove
\* of the fan drivers of i2c devices does not free the data, the port driver
\* of AS7712-32X not that of the port, the one of AS7816-64X not the buffer;
\* a probe of optoe that fails at the attribute group leaves the binary file,
\* and one of Wedge100BF-65X that fails among its attributes those before.
StaysBehind(d) ==
  CASE d \in {"as7312_54x_fan", "as7326_56x_fan", "as7712_32x_fan", "as7716_32x_fan",
              "as7716_32xb_fan", "as7726_32x_fan", "as7816_64x_fan"} -> {"data", "ready"}
    [] d = "as7712_32x_sfp" -> {"port"}
    [] d = "as7816_64x_sfp" -> {"buf"}
    [] d = "optoe" -> {"bin"}
    [] d = "accton_wedge100bf" -> {"part"}
    [] OTHER -> {}

\* A probe that fails undoes what it has done, step by step in whichever it
\* failed, and remove and exit undo probe and init: with no device the module
\* holds what init acquired, and unloaded nothing.
NothingLeft ==
  doing = "rest" /\ ~bound =>
    held \ StaysBehind(drv) \subseteq IF loaded THEN Range(D.init) ELSE {}

\* The drivers that make their files before the pointer the files follow.
ReadyLate == {"optoe", "as7712_32x_sfp", "as7816_64x_sfp"}

UsedFrom(way) ==
  CASE way = "client" -> {}
    [] way # "client" /\ drv \in ReadyLate -> D.uses \ {"ready"}
    [] OTHER -> D.uses

Used(p) == IF inside[p] = Nowhere THEN {} ELSE UsedFrom(inside[p])

\* Whoever is inside a show, a store or an exported function finds the data
\* it uses there and set up, from the moment probe makes the files until the
\* last is gone: data comes before the files and is freed after them.
FindsData ==
  \A p \in Process :
    inside[p] \notin StaysBehind(drv) => Used(p) \subseteq held

\* What is to be given back is held: nothing is freed or unregistered twice,
\* or without having been acquired.  (A client that did not get into the list
\* is not found in it; the two LED modules that hide a failed init are left.)
GivesBackOwn ==
  ~SaysAllIsWell /\ GoingBack =>
    /\ \A i \in DOMAIN left : left[i] \in held \cup {"client"}
    /\ \A i, j \in DOMAIN left : left[i] = left[j] => i = j

\* "only unregister the LEDs that were successfully registered"
OnlyRegistered ==
  doing = "undo_probe" /\ left # <<>> /\ Head(left) \in Leds => Head(left) \in held

-----------------------------------------------------------------------------
(* The inductive invariant.                                                  *)

\* Steps are left of a program, and what is done of it.
IsRestOf(steps, program) ==
  /\ steps \in Seq(Resource) /\ Len(steps) <= Len(program)
  /\ \A i \in DOMAIN steps : steps[i] = program[Len(program) - Len(steps) + i]

Done(steps, program) == {program[i] : i \in 1..(Len(program) - Len(steps))}

\* What the steps give back.
GivenBack(steps) ==
  Range(steps) \cup (IF "data" \in Range(steps) THEN {"ready"} ELSE {})

\* Steps that go back give back nothing twice, and what the users need only
\* after the ways they come by, but for those that stay behind.
GoesBack(steps, uses, behind) ==
  /\ steps \in Seq(Resource) /\ "ready" \notin Range(steps)
  /\ \A i, j \in DOMAIN steps : steps[i] = steps[j] => i = j
  /\ \A i, j \in DOMAIN steps :
       i < j /\ steps[i] \in uses \cup {"data"} => steps[j] \notin Ways \ ({"client"} \cup behind)

\* What init has acquired is none of the steps' business.
SparesInit ==
  /\ Range(left) \cap Range(D.init) = {}
  /\ "data" \in Range(left) => "ready" \notin Range(D.init)

PhaseInv ==
  /\ doing \in {"init", "undo_init"} => ~loaded
  /\ doing \in {"probe", "undo_probe", "remove", "exit"} \/ bound => loaded
  /\ doing \in {"probe", "undo_probe"} => ~bound
  /\ doing = "init" => IsRestOf(left, D.init)
  /\ doing = "probe" => IsRestOf(left, D.probe)
  /\ GoingBack => GoesBack(left, D.uses, StaysBehind(drv))
  /\ doing \in {"undo_probe", "remove"} => SparesInit

\* All that may be held, beside what stays behind.
MayHold ==
  CASE doing = "init" -> Done(left, D.init)
    [] doing = "probe" -> Range(D.init) \cup Done(left, D.probe)
    [] doing \in {"undo_init", "exit"} -> GivenBack(left)
    [] doing \in {"undo_probe", "remove"} -> Range(D.init) \cup GivenBack(left)
    [] doing = "rest" -> (IF loaded THEN Range(D.init) ELSE {}) \cup (IF bound THEN Range(D.probe) ELSE {})

\* And what is held for certain, but for the client.
MustHold ==
  CASE doing = "init" -> Done(left, D.init)
    [] doing = "probe" -> Range(D.init) \cup Done(left, D.probe)
    [] doing \in {"undo_init", "exit"} -> Range(left)
    [] doing \in {"undo_probe", "remove"} -> Range(D.init) \cup Range(left)
    [] doing = "rest" -> (IF loaded THEN Range(D.init) ELSE {}) \cup (IF bound THEN Range(D.probe) ELSE {})

HeldInv ==
  /\ held \subseteq StaysBehind(drv) \cup MayHold
  /\ ~SaysAllIsWell \/ doing \in {"init", "probe"} => MustHold \subseteq held \cup {"client"}

\* Whoever is inside came by a way that is there still, and each way that does
\* not stay behind has what its users need.
WaysInv ==
  /\ \A p \in Process : inside[p] # Nowhere => inside[p] \in held
  /\ \A way \in (held \cap Ways) \ StaysBehind(drv) : UsedFrom(way) \subseteq held

IInv == TypeOK /\ PhaseInv /\ HeldInv /\ WaysInv
=============================================================================
