CONSTANTS
  Wa = Wa
  Wab = Wab
  Wb = Wb
  Wc = Wc
  MaxTokens = 2
  Words <- MCWords
  PartOf <- MCPartOf
  Graphs <- MCGraphs
  Requests <- MCRequests
  ErrorWeight <- MCErrorWeight
  MaxFailures = 1
  JumpLens = {10}
  Growing = TRUE
  MinScore <- MCMinScore
  EditMatches <- MCEditMatches
SPECIFICATION Spec
INVARIANTS SpaceCompletesToken
