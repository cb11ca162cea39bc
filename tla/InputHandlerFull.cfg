\* A read may fill the ring: the purge of an oversized line ends at its last byte.
CONSTANTS
  Size = 3
  MaxRead = 3
  MaxBytes = 10
SPECIFICATION Spec
INVARIANT FullMeansNoLine
CHECK_DEADLOCK FALSE
