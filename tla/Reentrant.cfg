SPECIFICATION Spec
CONSTANTS
  IsClient = FALSE
  HsFlights = 2
  AsyncVerify = TRUE
  Promises = {p1, p2}
  None = None
  Api = {"write", "flush", "closeAll", "closeOutput", "stopTLS"}
  WriteSizes = {0, 3}
  MaxWriteSize = 2
  MaxFlush = 1
  Scripts <- MCScripts
  HalfClosure = FALSE
  AdditionalVerify = TRUE
  Reentrant = TRUE
SYMMETRY Symm
INVARIANTS TypeOK CloseNotifyIsLast DeliveredInOrder WritesInOrder SuccessMeansSent NoLostWrite ClosingNeverStalls FlushedWritesLeave OutboundDrains HandshakeCompletesOnce NoDataSentBeforeTrust ShutdownHasTimeout
PROPERTIES UnwrapIsClean
CHECK_DEADLOCK FALSE
