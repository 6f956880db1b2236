CONSTANTS
  Texts <- Inputs
  Cuts <- EveryCut
  Mode = "NORMAL"
  Elem = {e1, e2, e3, e4, e5, e6, e7, e8, e9}
  NULL = NULL
  StartSize = 2
  GrowSize = 1
  UIntRange = 16
  SizeRange = 1024
  Faults = {"init"}
  NullCalls = FALSE
  BufSize = 3
  MaxCalls = 3
SPECIFICATION WFairSpec
INVARIANTS
  DeliversUntilError
  ReadsOnce
  ParsesFirst
  BlocksAccounted
PROPERTIES
  CallsEnd
