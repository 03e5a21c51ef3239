SPECIFICATION Spec
CONSTANTS
  IsClient = TRUE
  HsFlights = 1
  AsyncVerify = TRUE
  Promises = {p1, p2}
  None = None
  Api = {"closeAll"}
  WriteSizes = {1}
  MaxWriteSize = 2
  MaxFlush = 1
  Scripts <- OrderlyScripts
  HalfClosure = FALSE
  AdditionalVerify = FALSE
  Reentrant = FALSE
SYMMETRY Symm
PROPERTIES InactiveIsFinal
CHECK_DEADLOCK FALSE
