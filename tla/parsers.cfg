SPECIFICATION Spec
CHECK_DEADLOCK FALSE
CONSTANTS
  Half = 8
  OverflowLess = TRUE
  OverflowMore = FALSE
  Base = 2
  MaxBytes = 9
  MaxTokens = 6
  MaxExtensions = 2
  MaxMessage = 8
INVARIANTS
  CompareCloseNumbers
  ChecksumIsAccepted
  RequestIsForProxy
  HelloIsUnderstood
  NamesAreUnderstood
  PacketIsDelivered
