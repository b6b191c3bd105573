SPECIFICATION Spec
CHECK_DEADLOCK FALSE
CONSTANTS
  Half = 8
  OverflowLess = TRUE
  OverflowMore = FALSE
  Base = 2
  MaxBytes = 2
  MaxTokens = 2
  MaxExtensions = 1
  MaxMessage = 4
INVARIANTS
  ExtensionHeadersAreSkipped
