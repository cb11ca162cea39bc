\* A connection that breaks in the middle of a message.
CONSTANTS
  Kinds = {"tcp"}
  Fds = {3}
  MaxOthers = 0
  MsgLen = 2
SPECIFICATION Spec
INVARIANT EveryLineWhole
CHECK_DEADLOCK FALSE
