SPECIFICATION Spec
CONSTANTS
  Call = {k1, k2}
  Client = {app, view}
  View = {view}
  Identity <- OneView
  Character = {"a", "b"}
  MaxToken <- TwoTokens
  Before <- FirstOfA
  None = None
SYMMETRY CallSymmetry
INVARIANTS RefreshIsAwaited AnswersAreOwn AnsweredTokensAreAccepted ReplayUsesRefresh
CHECK_DEADLOCK FALSE
