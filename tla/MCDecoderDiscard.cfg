SPECIFICATION Spec
CONSTANTS
  LanguageModel <- MCLanguageModel
  Cases <- DiscardingCases
  Infinity = 1000
  NoHypothesis = NoHypothesis
INVARIANT Scored
