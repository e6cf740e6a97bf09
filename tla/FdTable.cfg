\* The dev profile, which checks integer overflow: fd - 3 may panic.
SPECIFICATION FdSpec
CONSTANTS
  MaxSlots = 2
  Fds <- MCFds
  Counts = {0, 3}
  ContentLen <- MCContentLen
  MaxDigits = 2
  OffsetMax = 12
  OverflowChecks = TRUE
INVARIANTS OffsetInContent
PROPERTY ImplementsFdMap
CHECK_DEADLOCK FALSE
