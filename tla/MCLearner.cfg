CONSTANTS
  Texts <- MCTexts
  Space = " "
  Bytes <- MCBytes
  Lessons <- MCLessons
  InitialWeights <- MCInitialWeights
  nBestSize = 2
  Methods = {"Mira", "Perceptron", "PA2"}
  Metrics = {"KSMR", "WER"}
  Rate = 5
  Clip = 1
  Damping = 3
SPECIFICATION Spec
INVARIANTS NoWorseThanTyping CostsRight
PROPERTIES LearnsTheOracle
CHECK_DEADLOCK FALSE
