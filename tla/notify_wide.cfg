CONSTANTS
  P = 5
  Calls = 1
  Patterns <- WidePatterns
  Modes <- WideModes
  Synchronised <- Unseparated
  Widths <- DefaultWidths
  max_ranges = 2
  Extras <- SomeExtras
SPECIFICATION Spec
INVARIANTS
  RecursionInvariant
PROPERTY
  ImplementsNotify
