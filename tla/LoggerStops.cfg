\* A destination that is gone when the input ends.
CONSTANTS
  MaxMsgs = 1
  MaxLives = 1
  Faults = {}
  None = None
  Nil = Nil
  End = End
SPECIFICATION Spec
INVARIANT StopsCleanly
CHECK_DEADLOCK FALSE
