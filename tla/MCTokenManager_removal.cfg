SPECIFICATION Spec
CONSTANTS
  Manager = {m1}
  Caller = {c1, c2}
  MaxRt = 3
  MaxGen = 1
  Locking = FALSE
  Gap = TRUE
  Logins = TRUE
  Faults = FALSE
  SsoTimeout = FALSE
  None = None
INVARIANT NewestWins
CHECK_DEADLOCK FALSE
