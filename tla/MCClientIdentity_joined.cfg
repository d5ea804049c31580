SPECIFICATION Spec
CONSTANTS
  Call = {k1, k2}
  Client = {app, view}
  View = {view}
  Identity <- OneView
  Character = {"a", "b"}
  MaxToken <- TwoTokens
  Before <- Firsts
  None = None
SYMMETRY CallSymmetry
PROPERTY JoinedAnswersAreOwn
CHECK_DEADLOCK FALSE
