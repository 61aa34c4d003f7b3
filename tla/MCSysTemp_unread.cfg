CONSTANTS
  r1 = r1
  r2 = r2
  Readers <- MCOneReader
  Boards <- MCBoards
  OtherLm75 <- MCOtherLm75
  Temps <- MCTemps
  Garbage <- MCGarbage
  NoOne = NoOne
SPECIFICATION Spec
INVARIANTS
  ReturnsSum
