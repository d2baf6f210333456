SPECIFICATION FairSpec
CONSTANTS
  t1 = t1  t2 = t2  p1 = p1  p2 = p2  v1 = v1  v2 = v2
  plain = plain  cascade = cascade  auto = auto  forced = forced
  None = None
  Threads = {t1, t2}
  Pid <- OwnPid
  Build <- OneBuild
  Requests <- PlainOrCascade
  Cascading = {cascade}
  Rereads = {}
  Bundles = {b1}
  Refused = {}
  Artifacts = {a1, a2}
  Inodes = {1, 2, 3}
  MaxFaults = 0
  MaxCrashes = 1
  MaxEdits = 1
  PowerFails = TRUE
PROPERTIES ServesWhatWasAsked Heals
