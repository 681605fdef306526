CONSTANTS
  P = 2
  Calls = 1
  Patterns <- AllPatterns
  Modes <- InplaceModes
  Synchronised <- Nothing
  Widths <- DefaultWidths
  max_ranges = 1
  Extras <- SomeExtras
SPECIFICATION Spec
INVARIANT
  ReturnsPayload
