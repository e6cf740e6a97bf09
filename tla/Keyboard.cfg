\* Both kinds of interrupt controller; a ring of two fills up.
SPECIFICATION FairSpec
CONSTANTS
  Byte = {0, 1, 2, 3, 4, 5, 6}
  KEY_BUF_SIZE = 2
  MaxKeys = 6
  Silent = {3}
INVARIANTS RingOK NoKeyLost NotCopied BufferInOrder
PROPERTIES ImplementsQueue KeysReachReader
CHECK_DEADLOCK FALSE
