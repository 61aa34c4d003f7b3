CONSTANTS
  PolicyBoards <- MCBoards
  Readings <- MCReadings
  NumFans = 2
  Dirs <- MCDirs
  Faulty <- MCFaulty
  Operator <- MCOperator
  BootRegs <- MCBootRegs
  NONE = NONE
SPECIFICATION PolicyFairSpec
INVARIANT
  DecidedIsShown
PROPERTIES
  HeatAnswered
  CoolsDown
  FaultAnswered
