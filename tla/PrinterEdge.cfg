CONSTANTS
  Char <- Characters
  Decimal <- DigitsOf
  Tree <- AllTrees
  Height <- Nesting
  Jobs <- EdgeJobs
  NULL = NULL
  Names <- SomeNames
  Refusals <- UpToSix
SPECIFICATION MCSpec
INVARIANTS
  InsideBuffer
