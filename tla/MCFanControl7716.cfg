CONSTANTS
  Temps <- MCTemps
  NumFans = 1
  Dirs <- F2B
  Faulty <- MCFaulty
  Operator <- MCOperator
  NONE = NONE
SPECIFICATION FairSpec
INVARIANTS
  TypeOK
  OnTable
PROPERTIES
  HeatAnswered
  FaultAnswered
