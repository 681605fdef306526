CONSTANTS
  Blocks <- AllBlocks
  TreeSize = 20
  W = 4
  RangeSize = 10
  K = 4
  To = {0, 1}
  From = {0, 1, 2}
  P = 3
  Calls = 2
  Inputs <- SomeInputs
  Sizes <- ThreeRanks
SPECIFICATION AnySpec
INVARIANTS
  ExpectsWhatIsSent
  LeadsToTarget
  RangesAreCorrect
  MergeIsUnion
  ReturnsPayloadv
PROPERTY
  ImplementsCensus
