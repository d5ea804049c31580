SPECIFICATION FairSpec
CONSTANTS
  Proc = {p1, p2}
  NoFile = NoFile
  MaxTurn = 2
  MaxCrash = 2
  Overrun = TRUE
  GuardLeft = TRUE
PROPERTY NeverWedged
CHECK_DEADLOCK FALSE
