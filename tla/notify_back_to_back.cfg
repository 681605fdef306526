CONSTANTS
  P = 2
  Calls = 2
  Patterns <- AllPatterns
  Modes <- NbxModes
  Synchronised <- Nothing
  Widths <- DefaultWidths
  max_ranges = 1
  Extras <- SomeExtras
SPECIFICATION Spec
INVARIANT
  ReturnsSenders
