SPECIFICATION FairSpec
CONSTANTS
  in = in  out = out  made = made  c1 = c1  c2 = c2
  Calls = {c1, c2}
  Paths = {in, out, made}
  Bundles = {b1, b2}
  Broken = Broken
  None = None
  Requests <- MCRequests
  MaxAsks = 3
  MaxFaults = 1
  MaxEdits = 1
INVARIANT PipelineIsOfTheFile
PROPERTIES ModeAsAsked ReplacedOnlyOnSuccess StaysUsable OutputIsTheEdit EveryCallEnds
\* The client asks MaxAsks times and then no more.
CHECK_DEADLOCK FALSE
