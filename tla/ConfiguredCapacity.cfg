SPECIFICATION Spec
CONSTANTS
  InitialCapacity = 2
  MaxPreserved <- IntMax
  Configured = 3
  RoundUp <- PowerOfTwo
  WriteLens = {0, 1, 3, 5}
  ReadLens = {0, 1, 2}
  Arrivals = {0, 1, 3}
  MaxWritten = 8
  MaxReceived = 4
PROPERTY ConfiguredCapacity
CHECK_DEADLOCK FALSE
