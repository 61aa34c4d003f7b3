CONSTANTS
  p1 = p1
  p2 = p2
  NoOne = NoOne
  None = None
  Actor <- MCActor
  Drivers <- MCDrivers
  Open <- MCOpen
  ErrnoBits <- MCErrnoBits
  MaxChanges = 1
SYMMETRY MCSymmetry
SPECIFICATION Spec
INVARIANTS
  TypeOK
  ValidIsCurrent
  ShownIsStored
  KeepsWhatIsStored
  ShownWasRead
