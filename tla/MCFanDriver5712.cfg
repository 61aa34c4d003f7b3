CONSTANTS
  r1 = r1
  r2 = r2
  w1 = w1
  NoOne = NoOne
  Readers <- MCReaders
  Writers <- MCWriters
  Fans <- MCFans
  HwFaults <- MCHwFaults
  Inputs <- MCInputs
SPECIFICATION FairSpec
INVARIANTS
  ValidIsOneRefresh
  NoneShownBeforeFilled
PROPERTIES
  EventuallyCurrent
  ReadReturns
