SPECIFICATION FairSpec
CONSTANTS
  t1 = t1  t2 = t2  p1 = p1  p2 = p2  v1 = v1  v2 = v2
  plain = plain  cascade = cascade  auto = auto  forced = forced
  None = None
  Threads = {t1, t2}
  Pid <- OwnPid
  Build <- TwoBuilds
  Requests <- Plain
  Cascading = {}
  Rereads = {}
  Bundles = {b1, b2}
  Refused = {b2}
  Artifacts = {a1}
  Inodes = {1, 2, 3}
  MaxFaults = 1
  MaxCrashes = 1
  MaxEdits = 1
  PowerFails = FALSE
INVARIANT NeverHalfWritten
PROPERTIES ServesWhatWasAsked EveryCallEnds
