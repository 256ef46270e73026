CONSTANTS
  H = 4
  Cover = 2
  Lattices <- MCLattices
SPECIFICATION Spec
INVARIANTS GraphAsAssumed SameTranslations ForwardIsBest
CHECK_DEADLOCK FALSE
