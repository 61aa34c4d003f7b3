SPECIFICATION Spec
CONSTANTS
  p1 = p1
  p2 = p2
  Actor <- ActorDef
  Drivers <- DriversDef
  Ports <- PortsDef
  ErrnoBytes <- ErrnoBytesDef
  I2C_RW_RETRY_COUNT = 2
SYMMETRY Symmetry
INVARIANTS
  NoLostUpdate
  AllInOrder
PROPERTIES
  OnlyOwnBit
  ShownIsStored
