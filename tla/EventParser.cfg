CONSTANTS
  Texts <- EventTexts
  Cuts <- EventCuts
  StartSize = 1
  GrowSize = 1
  UIntRange = 16
  ReallocFails = TRUE
SPECIFICATION Spec
INVARIANTS
  TypeOK
  HeightAgrees
  AtomBufferInBounds
  EventsMatchGrammar
