SPECIFICATION Spec
CONSTANTS
  Call = {k1, k2, k3}
  Character = {"a", "b"}
  Token = {"t"}
  NoToken = NoToken
  MaxInvalidate = 1
  None = None
SYMMETRY CallSymmetry
INVARIANTS ResolvedWritesStay InvalidateIsHonoured
CHECK_DEADLOCK FALSE
