CONSTANTS
  PolicyBoards <- OnlyAs7816
  Readings <- AtLimit
  NumFans = 1
  Dirs = {0}
  Faulty <- NoFaults
  Operator = {}
  BootRegs <- MCBootRegs
  NONE = NONE
SPECIFICATION PolicyFairSpec
PROPERTIES
  LimitAnswered
