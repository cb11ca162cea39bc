\* Two connections, one line; freed memory reads as 0 or as no descriptor.
CONSTANTS
  CommandLines <- MCLines
  Leftovers = {0, Bad}
  Bad = Bad
  MaxConns = 2
  MaxLines = 1
SPECIFICATION Spec
INVARIANTS TypeOK HandlersApart NoBadDescriptor
PROPERTIES FirstScanGenuine Served
CHECK_DEADLOCK FALSE
