CONSTANTS
  Temps <- MCTemps
  CliDuties <- MCCliDuties
  NumFans = 2
  NONE = NONE
SPECIFICATION MonitorSpec
INVARIANTS
  AdequateDuty
  FansAdequate
PROPERTIES
  NoUnsafeStepDown
