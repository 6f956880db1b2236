CONSTANTS
  Char <- Characters
  Decimal <- DigitsOf
  Tree <- AllTrees
  Height <- Nesting
  Jobs <- AllJobs
  NULL = NULL
  Names <- SomeNames
  Refusals <- UpToSix
SPECIFICATION MCSpec
INVARIANTS
  OutsideOnlyAtEdges
  BufferCounted
  ParensMatchLevels
  PrintsText
  AddsText
  RoundTrip
  FindsFirst
  
  CopiesOrReports
