CONSTANTS
  Callers = {c1, c2}
  Requests <- MCRequests
  Classes <- BothClasses
  NumAddresses = 2
  XferMax = 64
  UseSmbus = TRUE
  OverrunMax = 128
  Swaps = TRUE
  NoOne = NoOne
SPECIFICATION FairSpec
INVARIANTS
  RightPage
  PageZeroAtRest
  PieceLegal
  NeverOverstated
  InOrder
PROPERTIES
  CallReturns
