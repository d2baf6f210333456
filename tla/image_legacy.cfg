\* Legacy16 headers: f2 overflowed with debug info, f1 plain with handlers.
SPECIFICATION Spec
CONSTANTS
  f1 = f1
  f2 = f2
  NoFn = NoFn
  Fns <- MCFns
  Overflowed <- Second
  WithTable <- First
  WithLines <- Second
  Modern = FALSE
  HasPad = TRUE
  LinesModelled = TRUE
  BaseAt = 16
  GapLen = 4
  LargeSize = 20
  FooterLen = 20
  OffLimit = 98
  SizeLimit = 13
  FrameLimit = 8
  CacheLimit = 2
  LogFrame = 4
  LogLen = 3
  Contents = {c1, c2}
  Torn = Torn
  BodySizes = {6, 9}
  StringBytes = {5, 12}
  RegexpBytes = {3}
  LineGrowth = {1}
  BodyBound = 14
  RegexpBound = 6
  LinesBound = 5
  Paddings = {1}
  OpenRegs <- TwoFrames
  InitLayouts <- MixedFiles
SYMMETRY ContentSymmetry
VIEW FileView
INVARIANTS StubsHaveRoom EveryOffsetResolves LengthCountsTheFooter ModelMatchesBytes
  RegionsStayLaidOut FieldsHoldTheirValues
PROPERTIES EditsAreSurgical TablesFollowTheirBody LinesGoStaleOnlyIfAccepted
  RefusalsKeepTheFile
