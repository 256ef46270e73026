CONSTANTS
  N = 3
  RefLen <- MCRefLen
  EmptySource = {}
  Long <- MCLong
  MaxRead = 4
  Deliveries = {"message", "merge", "any"}
  Learning = TRUE
SPECIFICATION FairSpec
INVARIANTS NotStuck AnswersMatch ObjectsExist LearnsBeforeNext
PROPERTIES KeepsDialogue Completes
CHECK_DEADLOCK FALSE
