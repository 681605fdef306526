CONSTANTS
  P = 3
  Calls = 2
  Patterns <- FairPatterns
  Modes <- FairModes
  Synchronised <- Unseparated
  Widths <- DefaultWidths
  max_ranges = 1
  Extras <- SomeExtras
SPECIFICATION FairSpec
PROPERTY
  AllReturn
