\* What buffer_cleanup leaves behind when two chunks or more are in use.
CONSTANTS
  main = main
  reader = reader
  Logger = logger
  Producers <- MCProducers
  Cancellable <- MCCancellable
  Msg = {m1, m2, m3}
  ReallocSize = 2
  Junk = junk
  Nil = nil
SPECIFICATION Spec
INVARIANT CleanupFreesAll
CHECK_DEADLOCK FALSE
