CONSTANTS
  Wa = Wa
  Wab = Wab
  Wb = Wb
  Wc = Wc
  MaxTokens = 3
  Words <- MCWords
  PartOf <- MCPartOf
  Graphs <- MCGraphs
  Requests <- MCRequests
  ErrorWeight <- MCErrorWeight
  MaxFailures = 1
  JumpLens = {2, 10}
  Growing = TRUE
  MinScore <- MCMinScore
  EditMatches <- MCEditMatches
SPECIFICATION FairSpec
INVARIANTS TypeOK BackLinked ScoreLinked NoRivals JumpsBounded
PROPERTIES Settled KeepsPromise Answered
