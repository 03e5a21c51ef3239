SPECIFICATION Spec
CONSTANTS
  IsClient = TRUE
  HsFlights = 1
  AsyncVerify = FALSE
  Promises = {p1, p2}
  None = None
  Api = {"flush", "closeAll", "closeOutput"}
  WriteSizes = {1}
  MaxWriteSize = 2
  MaxFlush = 1
  Scripts <- OrderlyScripts
  HalfClosure = FALSE
  AdditionalVerify = TRUE
  Reentrant = FALSE
SYMMETRY Symm
INVARIANTS TimeoutFindsShutdown
CHECK_DEADLOCK FALSE
