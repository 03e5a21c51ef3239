SPECIFICATION Spec
CONSTANTS
  IsClient = TRUE
  HsFlights = 1
  AsyncVerify = FALSE
  Promises = {p1, p2}
  None = None
  Api = {"closeAll", "closeOutput"}
  WriteSizes = {1}
  MaxWriteSize = 2
  MaxFlush = 1
  Scripts <- OrderlyScripts
  HalfClosure = FALSE
  AdditionalVerify = FALSE
  Reentrant = FALSE
SYMMETRY Symm
INVARIANTS NoLostCloseOutput
CHECK_DEADLOCK FALSE
