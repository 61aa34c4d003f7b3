SPECIFICATION Spec
CONSTANTS
  p1 = p1
  p2 = p2
  Process <- ProcessDef
  Drivers <- DriversDef
  MayFail <- MayFailAll
INVARIANT
  OnlyRegistered
