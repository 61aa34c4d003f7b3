CONSTANTS
  Temps <- MCHot
  NumFans = 1
  Dirs <- F2B
  Faulty <- MCFaulty
  Operator = {}
  NONE = NONE
SPECIFICATION FairSpec
PROPERTIES
  UnmatchedComesBack
