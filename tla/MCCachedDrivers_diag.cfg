CONSTANTS
  p1 = p1
  p2 = p2
  NoOne = NoOne
  None = None
  Actor <- MCActor
  Drivers <- MCDiagDrivers
  Open <- MCDiagOpen
  ErrnoBits <- MCErrnoBits
  MaxChanges = 1
SYMMETRY MCSymmetry
SPECIFICATION Spec
INVARIANTS
  LedColorIsSet
