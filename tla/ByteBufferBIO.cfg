SPECIFICATION Spec
CONSTANTS
  InitialCapacity = 2
  MaxPreserved = 3
  Configured = 3
  RoundUp <- PowerOfTwo
  WriteLens = {0, 1, 3, 5}
  ReadLens = {0, 1, 2}
  Arrivals = {0, 1, 3}
  MaxWritten = 8
  MaxReceived = 4
INVARIANTS TypeOK
PROPERTIES IsByteStreams PreservedCapacity
CHECK_DEADLOCK FALSE
