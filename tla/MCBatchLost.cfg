SPECIFICATION Spec
CONSTANTS
  Threads = {t1, t2}
  QueueLimits = {0, 1}
  NoTask = NoTask
  Collectors = {"translation", "alignment"}
  MaxInputs = 3
  StartIds = {0}
  Last = 4
  CanFail = TRUE
INVARIANT NothingKept
