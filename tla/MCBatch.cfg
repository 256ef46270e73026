SPECIFICATION Spec
CONSTANTS
  Threads = {t1, t2, t3}
  QueueLimits = {0, 1}
  NoTask = NoTask
  Collectors = {"translation", "alignment"}
  MaxInputs = 4
  StartIds = {0}
  Last = 4
  CanFail = TRUE
INVARIANTS OnePlace TranslationsMove
PROPERTIES PutsOutInOrder Finishes
