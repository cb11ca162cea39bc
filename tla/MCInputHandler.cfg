\* A ring of three bytes, ten bytes of input in reads of up to three.
CONSTANTS
  Size = 3
  MaxRead = 3
  MaxBytes = 10
SPECIFICATION Spec
INVARIANTS TypeOK RingExact ReadFits LinesGenuine LinesExact
PROPERTY ReadReturns
CHECK_DEADLOCK FALSE
