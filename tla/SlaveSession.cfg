SPECIFICATION Spec
CONSTANTS
  sp1 = sp1
  sp2 = sp2
  selectPort = selectPort
  digPort = digPort
  StreamingPort <- MCStreamingPort
  OtherPort <- MCOtherPort
  SelectPort = selectPort
  StreamOrder <- MCStreamOrder
  Menu <- MCMenu
  BindChannel = {2, 3, 4}
  SyncChannel = {20}
  LowChannel = {}
  OPDI_MAX_DEVICE_PORTS = 3
  OPDI_STREAMING_PORTS = 2
  IdleLimit = 1
  MasterFlags <- FlagsType
  Device <- FullDevice
INVARIANTS
  TypeOK
  AuthenticatedWhenRequired
  EncryptionHonoursFlags
  LongTimeoutOnlyForAuth
  StreamsAreGranted
  NothingAfterDisconnect
  AnsweredOnRequestChannel
PROPERTIES
  SentAsAgreed
  HandshakeOnControlChannel
