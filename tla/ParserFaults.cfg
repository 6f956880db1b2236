CONSTANTS
  Texts <- FaultTexts
  Cuts <- EveryCut
  Mode = "INLINE_BINARY"
  Elem = {e1, e2, e3, e4, e5, e6}
  NULL = NULL
  StartSize = 2
  GrowSize = 1
  UIntRange = 16
  SizeRange = 1024
  Faults = {"init", "sexp_t", "pd", "val", "grow", "bindata"}
  NullCalls = FALSE
SPECIFICATION FairSpec
INVARIANTS
  DeliversGrammar
  EventsMirrorTrees
  OwnedOnce
  BlocksAccounted
  StackShape
  FullExpression
PROPERTIES
  EveryCallReturns
