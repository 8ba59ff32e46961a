SPECIFICATION Spec
CONSTANTS
  BufferSize = 20
  BlockSize = 4
  Alphabet <- MCAlphabet
  Configuration <- MCConfiguration
  ChunkSizes = {7}
  MaxAttempts = 3
  OPDI_MAX_DEVICE_PORTS = 4
  OPDI_MAX_MESSAGE_PARTS = 4
INVARIANTS
  BulkTypeOK
  MessagesFaithful
  FaultConfined
  QueryComplete
  NothingMisattributed
PROPERTIES
  QueryEnds
