\* stdin beside a listener: when accept() fails the listener is removed, and stdin with it.
CONSTANTS
  CommandLines <- MCStream
  Leftovers = {Bad}
  Bad = Bad
  MaxConns = 1
  MaxLines = 1
SPECIFICATION Spec
PROPERTY OnlyEnded
CHECK_DEADLOCK FALSE
