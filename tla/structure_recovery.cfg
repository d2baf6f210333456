\* A function returns, or throws, and the run of it is over.
CHECK_DEADLOCK FALSE
SPECIFICATION Spec
CONSTANTS
  Compared = {"j", "q"}
  JumpInRange = TRUE
  Functions <- MCFunctions
  MayThrow = {"a"}
  Results = {"yes", "no"}
INVARIANTS
  FollowsTheBytecode
  NothingIsDropped
  JumpsHaveTargets
