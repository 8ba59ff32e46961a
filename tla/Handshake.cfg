SPECIFICATION HandshakeSpec
CONSTANTS
  selectPort = selectPort
  StreamingPort = {}
  OtherPort <- MCOtherPort
  SelectPort = selectPort
  StreamOrder <- NoStreams
  Menu <- MCMenu
  BindChannel = {}
  SyncChannel = {20}
  LowChannel = {}
  OPDI_MAX_DEVICE_PORTS = 1
  OPDI_STREAMING_PORTS = 1
  IdleLimit = 1
  MasterFlags <- MCMasterFlags
  Device <- MCDevice
  Master <- MCMaster
  Offer <- MCOffer
INVARIANTS
  HandshakeTypeOK
  SameCipher
  BothFlagsHonoured
  CredentialsProtected
  ConnectedMeansServed
  EndIsReported
PROPERTIES
  OnlyAcceptedStored
  CompatibleConnects
  AttemptEnds
