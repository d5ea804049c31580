SPECIFICATION Spec
CONSTANTS
  Manager = {m1}
  Caller = {c1, c2, c3}
  MaxRt = 4
  MaxGen = 2
  Locking = FALSE
  Gap = FALSE
  Logins = TRUE
  Faults = FALSE
  SsoTimeout = FALSE
  None = None
INVARIANTS TypeOK StoredIsUsable RevokedIsReal NewestWins
CHECK_DEADLOCK FALSE
