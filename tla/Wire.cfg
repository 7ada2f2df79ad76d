CONSTANTS
  Base = 4
  kNetworkBufferSize = 48
  kFnv1aSeed = 33189
  kFnv1aPrime = 435
  ByteXor <- MCByteXor
  Sent <- MCSent
  MaxFaults = 2
SPECIFICATION Spec
CHECK_DEADLOCK FALSE
INVARIANTS
  TypeOK
  RoundTrip
  FieldsAreThere
  ReadsAsWritten
