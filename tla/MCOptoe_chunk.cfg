CONSTANTS
  Callers = {c1}
  Requests <- MCMisaligned
  Classes <- OnlyOne
  NumAddresses = 1
  XferMax = 64
  UseSmbus = TRUE
  OverrunMax = 128
  Swaps = FALSE
  NoOne = NoOne
SPECIFICATION Spec
INVARIANTS
  InOnePage
