CONSTANTS
  Temps <- MCAllTemps
  NumFans = 1
  Dirs <- F2B
  Faulty <- NoFaults
  Operator = {}
  NONE = NONE
SPECIFICATION Spec
PROPERTIES
  OneRowAtATime
