CONSTANTS
  Texts <- StringTexts
  Cuts <- EveryCut
  Mode = "NORMAL"
  Elem = {e1, e2, e3, e4, e5, e6}
  NULL = NULL
  StartSize = 1
  GrowSize = 1
  UIntRange = 16
  SizeRange = 1024
  Faults = {}
  NullCalls = FALSE
SPECIFICATION Spec
INVARIANTS
  InsideChunk
