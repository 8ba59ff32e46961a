SPECIFICATION FairSpec
CONSTANTS
  sp1 = sp1
  sp2 = sp2
  selectPort = selectPort
  digPort = digPort
  StreamingPort = {sp1}
  OtherPort = {selectPort}
  SelectPort = selectPort
  StreamOrder <- SmallStreamOrder
  Menu <- SmallMenu
  BindChannel = {2}
  SyncChannel = {20}
  LowChannel = {1}
  OPDI_MAX_DEVICE_PORTS = 2
  OPDI_STREAMING_PORTS = 1
  IdleLimit = 1
  MasterFlags <- SmallMasterFlags
  Device <- SmallDevice
INVARIANT IdleDisconnectJustified
PROPERTIES
  MasterGoneReleases
  InactiveMasterReleased
