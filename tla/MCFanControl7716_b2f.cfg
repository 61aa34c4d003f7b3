CONSTANTS
  Temps <- MCCoolOrHot
  NumFans = 1
  Dirs <- B2F
  Faulty <- NoFaults
  Operator <- MCSecondRow
  NONE = NONE
SPECIFICATION FairSpec
PROPERTIES
  CoolsDownB2F
