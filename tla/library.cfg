CONSTANTS
  Components <- AllBlocks
  P = 3
  Errors = {5}
  MaxCalls = 2
  MaxCount = 1
  AtCalls = 1
SPECIFICATION AnySpec
INVARIANTS
  OneFileOpen
  
  SerialEquivalent
  ReadsBack
  
  StreamsAreExact
  
  
  StringsStayValid
  CountsAreExact
  LinesAreWhole
  
  SortIsCorrect
  
  

  
CHECK_DEADLOCK FALSE
