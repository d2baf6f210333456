\* A loop in a try region: every chain of stubs and text edits.
SPECIFICATION Spec
CONSTANTS
  Program <- Loop
  End = "end"
  Regions <- LoopRegions
  Located <- LoopLines
  Case = "-"
  SwitchIsJump = FALSE
  LogLen = 6
  AddrMax = 12
  InsertLens = {1, 3}
  MayDelete = {"more"}
  Stated = {TRUE}
  Consents = {FALSE, TRUE}
  SizeBound = 16
INVARIANTS JumpsFollow HandlersFollow RoundTrips
PROPERTIES LinesFollowInsertions
\* A body grown past SizeBound is not edited again.
CHECK_DEADLOCK FALSE
