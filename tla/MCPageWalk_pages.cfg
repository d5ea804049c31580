SPECIFICATION FairSpec
CONSTANTS
  PageSize = 2
  MaxPages = 3
  Concurrency = 2
  MaxItem = 7
  MaxChange = 3
  MaxWrite = 1
  None = None
INVARIANTS TypeOK UnchangedIsWhole ShortIsSaid PartialIsPrefix QuietLossIsSmall EntryFollowsWrites
PROPERTY WalkEnds
CHECK_DEADLOCK FALSE
