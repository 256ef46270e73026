SPECIFICATION Spec
CONSTANTS
  LanguageModel <- MCLanguageModel
  Cases <- MCCases
  Infinity = 1000
  NoHypothesis = NoHypothesis
INVARIANTS NoDeadEnd ConstraintsHold PruningJust GraphSound FindsBest ListRight
