SPECIFICATION FairSpec
CONSTANTS
  Manager = {m1, m2}
  Caller = {c1, c2}
  MaxRt = 2
  MaxGen = 0
  Locking = TRUE
  Gap = TRUE
  Logins = FALSE
  Faults = TRUE
  SsoTimeout = TRUE
  None = None
INVARIANTS SpentOnce StoredIsUsable
PROPERTIES EverySlotIsFreed LeaseIsReturned
CHECK_DEADLOCK FALSE
