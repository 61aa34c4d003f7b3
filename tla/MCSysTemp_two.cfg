CONSTANTS
  r1 = r1
  r2 = r2
  Readers <- MCReaders
  Boards <- MCBoards
  OtherLm75 <- MCOtherLm75
  Temps <- MCTemps
  Garbage = {}
  NoOne = NoOne
SPECIFICATION Spec
SYMMETRY Symmetry
INVARIANTS
  ReturnsSum
