CONSTANTS
  cpld2 = cpld2
  cpld3 = cpld3
  p1 = p1
  p2 = p2
  Cplds = {cpld2, cpld3}
  Ports = {p1, p2}
  Calls <- MCCalls
  Values <- MCValues
  Tasks = {t1, t2}
  I2C_RW_RETRY_COUNT = 2
  Deselected = Deselected
  NoOne = NoOne
SPECIFICATION FairSpec
INVARIANTS
  OwnChannel
  OtherMuxesOff
  ExportedIsListed
PROPERTIES
  RegistersAtomic
  CallReturns
