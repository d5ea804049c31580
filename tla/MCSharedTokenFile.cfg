SPECIFICATION FileSpec
CONSTANTS
  Proc = {p1, p2, p3}
  NoFile = NoFile
  MaxTurn = 2
  MaxCrash = 1
  Overrun = FALSE
  GuardLeft = FALSE
  Character = {c1, c2}
  Token = {t1}
  NoToken = NoToken
SYMMETRY ProcSymmetry
INVARIANTS MutualExclusion FileTypeOK
PROPERTIES ImplementsTokenStore RemovalIsJustified
CHECK_DEADLOCK FALSE
