CONSTANTS
  P = 3
  Calls = 2
  Patterns <- MixedPatterns
  Modes <- CallModes
  Synchronised <- Unseparated
  Widths <- DefaultWidths
  max_ranges = 1
  Extras <- SomeExtras
SPECIFICATION Spec
INVARIANTS
  
  ReceivedIsComplete
  CallsKeptApart
  RecursionInvariant
  AnySourceIsSafe
  NothingLeftOver
PROPERTY
  ImplementsNotify
