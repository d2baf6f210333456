\* A function returns, and the run of it is over.
CHECK_DEADLOCK FALSE
SPECIFICATION Spec
CONSTANTS
  Compared = {}
  JumpInRange = TRUE
  Functions <- MCCaught
  Results = {"x", "y"}
INVARIANT
  CatchReadsWhatWasWritten
