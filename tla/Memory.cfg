CONSTANTS
  NULL = NULL
  SizeRange = 16
  Limits = {0, 6, 11}
  CStringSize = 1
  StartSizes = {0, 2}
  GrowSizes = {0, 1, 2}
  Pieces <- Letters
  Obj = {o1, o2}
  ObjSize <- BlockSizes
  StackSize = 1
  LevelSize = 1
  AtomSizes = {0, 1}
SPECIFICATION Spec
INVARIANTS
  WithinLimit
  UsedIsHeld
  OwnedOrCached
  TerminatorInside
