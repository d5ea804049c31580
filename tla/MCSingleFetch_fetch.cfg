SPECIFICATION FairFetchSpec
CONSTANTS
  Call = {c1, c2}
  FailureThreshold = 2
  HalfOpenMaxAttempts = 2
  NoCircuit = NoCircuit
  Group = {"market"}
  GroupOf <- OneGroup
  MaxWait = 2
  Penalty = 2
  LowWait = 1
  MinDelay = 1
  Rounds = 2
INVARIANTS FetchTypeOK SlotsAreInUse OnlyLateBlocksAreMissed
PROPERTIES HalfOpenEnds CircuitSpec SendsAreSpaced SpentBudgetIsWaitedOut CheckEnds
