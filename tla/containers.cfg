CONSTANTS
  Blocks <- AllBlocks
  Handle = {h1, h2, h3, h4}
  per_stamp = 2
  start_value = 3
  Lists = {L1, L2}
  Link = {k1, k2, k3}
  NULL = NULL
  Key <- TwelveKeys
  Item <- FiveItems
  hash_fn <- TimesFive
  sc_hash_minimal_size = 1
  sc_hash_shrink_interval = 2
  elem_size = 3
  debug = FALSE
  MaxArray = 5
  Data = {"x", "y"}
  Value = {1, 2, 3}
  MaxQueue = 6
  MaxPermute = 4
  MaxCount = 5
  MaxTypes = 4
SPECIFICATION AnySpec
INVARIANTS
  PoolIsSound
  
  HashIsSound
  PermuteIsCorrect
  LoopInvariant
  SplitIsCorrect
PROPERTIES
  ImplementsAllocator
  OperationsAreExact
