SPECIFICATION Spec
CONSTANTS
  Proc = {p1, p2, p3}
  NoFile = NoFile
  MaxTurn = 2
  MaxCrash = 1
  Overrun = FALSE
  GuardLeft = TRUE
INVARIANT MutualExclusion
CHECK_DEADLOCK FALSE
