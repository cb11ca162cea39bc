\* Every output type, messages of three units, two descriptors of other threads.
CONSTANTS
  Kinds = {"tcp", "udp", "file", "stdout", "unix"}
  Fds = {3, 4, 5}
  MaxOthers = 2
  MsgLen = 3
SPECIFICATION Spec
INVARIANTS TypeOK DeliveredEnds LinesWhole OneDescriptor NeverAborts
PROPERTY GivesUpUnlessWoken
CHECK_DEADLOCK FALSE
