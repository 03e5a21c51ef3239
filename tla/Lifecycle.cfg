SPECIFICATION FairSpec
CONSTANTS
  IsClient = TRUE
  HsFlights = 1
  AsyncVerify = FALSE
  Promises = {p1, p2}
  None = None
  Api = {"write", "flush", "closeAll", "closeOutput", "stopTLS"}
  WriteSizes = {1}
  MaxWriteSize = 2
  MaxFlush = 1
  Scripts <- MCScripts
  HalfClosure = TRUE
  AdditionalVerify = FALSE
  Reentrant = FALSE
INVARIANTS NoPreconditionFailure OutputClosedIsSealed
PROPERTIES UnwrapPassesOnTheRest CloseAllCompletes StopTLSCompletes ShutdownEnds
CHECK_DEADLOCK FALSE
