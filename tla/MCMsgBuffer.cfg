\* Two producers, four messages, chunks of two slots.
CONSTANTS
  main = main
  reader = reader
  Logger = logger
  Producers <- MCProducers
  Cancellable <- MCCancellable
  Msg = {m1, m2, m3, m4}
  ReallocSize = 2
  Junk = junk
  Nil = nil
SPECIFICATION Spec
INVARIANTS TypeOK PopSafe AtRest SizeIsPromise
PROPERTIES NoLostWakeup CleanupFreesOnlyStored IsQueue
CHECK_DEADLOCK FALSE
