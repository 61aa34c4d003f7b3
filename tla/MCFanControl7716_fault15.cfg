CONSTANTS
  Temps <- MCAllTemps
  NumFans = 1
  Dirs <- F2B
  Faulty <- MCFaulty
  Operator = {}
  NONE = NONE
SPECIFICATION Spec
INVARIANTS
  FaultRegister15
