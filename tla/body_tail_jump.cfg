\* A backward jump that ends the body, and padding in front of it.
SPECIFICATION Spec
CONSTANTS
  Program <- Forever
  End = "end"
  Regions <- None
  Located <- None
  Case = "-"
  SwitchIsJump = FALSE
  LogLen = 6
  AddrMax = 20
  InsertLens = {1}
  MayDelete = {}
  Stated = {TRUE}
  Consents = {FALSE}
  SizeBound = 20
INVARIANTS JumpsFollow
\* A body grown past SizeBound is not edited again.
CHECK_DEADLOCK FALSE
