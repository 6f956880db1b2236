CONSTANTS
  Lvl = {l1, l2, l3}
  Data = {d1, d2}
  NULL = NULL
SPECIFICATION FairSpec
INVARIANTS
  LevelsRecycled
  NoDangling
  IInv
PROPERTIES
  ImplementsStack
  DestroyEnds
