\* A destination that accepts every connection and resets it at the first write.
CONSTANTS
  Kinds = {"tcp"}
  Fds = {3}
  MaxOthers = 0
  MsgLen = 2
SPECIFICATION Spec
PROPERTY GivesUp
CHECK_DEADLOCK FALSE
