SPECIFICATION Spec
CONSTANTS
  Wa = Wa
  Wab = Wab
  Wb = Wb
  Wc = Wc
  MaxTokens = 3
  Classes = {"ECModel"}
  MaxFailures = 1
  LevelFailures = 2
  Words <- MCWords
  PartOf <- MCPartOf
  Graphs <- MCGraphs
  WindowGraphs <- MCWindowGraphs
  WordVecGraphs <- MCWordVecGraphs
  LevelGraphs <- MCLevelGraphs
  ECGraphs <- MCECGraphs
  PlainRequests <- MCPlainRequests
  WindowRequests <- MCWordRequests
  WordVecRequests <- MCWordRequests
  LevelRequests <- MCPlainRequests
  PlainErrorWeight <- MCPlainErrorWeight
  MinScore <- MCMinScore
  WindowErrorWeight = 84
  WindowSize = 3
  WordVecErrorWeight = 2
  WordVecMethods = {"StopWords", "WordVector", "both"}
  StopWords = {Wb}
  Unit = 10
  StopWordsError = 5
  Similarity <- MCSimilarity
  Alphabet <- MCAlphabet
  Orders <- MCOrders
  Typed <- MCTyped
  Space = " "
  ErrorCost <- MCErrorCost
INVARIANT ECSuffixOnBestPath
