CONSTANTS
  alice = alice
  bob = bob
  MAX_SKIP = 2
  MAX_SKIPPED_KEYS = 2
  MaxSent <- FiveAndFour
  MaxReplays = 1
SPECIFICATION RatchetSpec
CHECK_DEADLOCK FALSE
INVARIANT
  ReadOnce
  LateIsReadable
