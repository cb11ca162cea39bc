CONSTANTS
  CommandLines <- MCLines
  Leftovers = {0, Bad}
  Bad = Bad
  MaxConns = 1
  MaxLines = 1
SPECIFICATION GSpec
INVARIANTS GTypeOK ThreadsApart NothingLeaks MarkerLast
PROPERTIES ShutdownEnds
CHECK_DEADLOCK FALSE
