SPECIFICATION FairSpec
CONSTANTS
  Caller = {c1, c2, c3}
  MaxVersion = 2
  MaxWrite = 1
  MaxTry = 1
  RecentWrites = 0
  Dedup = TRUE
  None = None
INVARIANTS TypeOK ReadsFollowWrites NoPreWriteEntry EtagNamesBody Coalesced
PROPERTY EveryCallSettles
CHECK_DEADLOCK FALSE
