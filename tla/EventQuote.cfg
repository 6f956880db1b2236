CONSTANTS
  Texts <- ListQuoteTexts
  Cuts <- EveryCut
  StartSize = 2
  GrowSize = 1
  UIntRange = 16
  ReallocFails = FALSE
SPECIFICATION Spec
INVARIANTS
  EventsMatchGrammar
