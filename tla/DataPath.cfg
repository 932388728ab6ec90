SPECIFICATION Spec
CONSTANTS
  MemSize = 4
  DataAddress = 8
  MaxLength = 2
  Transfers <- MCTransfers
  Bytes = {1, 2}
  FifoBound = 2
  Payload <- MCPayload
INVARIANTS
  BytesArrive
PROPERTIES
  CompletionSignalled
CHECK_DEADLOCK FALSE
