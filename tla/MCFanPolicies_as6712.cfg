CONSTANTS
  PolicyBoards <- OnlyAs6712
  Readings <- At35
  NumFans = 1
  Dirs = {0}
  Faulty <- NoFaults
  Operator = {}
  BootRegs <- MCBootRegs
  NONE = NONE
SPECIFICATION PolicyFairSpec
PROPERTIES
  At35Answered
