\* A function returns, and the run of it is over.
CHECK_DEADLOCK FALSE
SPECIFICATION Spec
CONSTANTS
  Compared = {}
  JumpInRange = TRUE
  Functions <- MCFunctions
  Results = {"x", "y"}
INVARIANT
  ReadsTheSame
