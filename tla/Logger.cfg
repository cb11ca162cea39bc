\* Four messages over two lives; every call on the backlog may fail.
CONSTANTS
  MaxMsgs = 4
  MaxLives = 2
  Faults = {"initial", "append", "read", "fputs", "fflush", "getline", "truncate"}
  None = None
  Nil = Nil
  End = End
SPECIFICATION Spec
INVARIANTS TypeOK NothingLost PendingInOrder NoRepeats EndMeansSafe
PROPERTIES Terminates IsRelay
CHECK_DEADLOCK FALSE
