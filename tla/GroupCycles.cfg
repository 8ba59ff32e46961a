SPECIFICATION Spec
CONSTANTS
  BufferSize = 20
  BlockSize = 4
  Alphabet <- MCAlphabet
  Configuration <- Grouped
  ChunkSizes = {7}
  MaxAttempts = 2
  OPDI_MAX_DEVICE_PORTS = 4
  OPDI_MAX_MESSAGE_PARTS = 4
INVARIANTS
  AcceptedHierarchyEnds
