SPECIFICATION Spec
CONSTANTS
  c1 = c1
  c2 = c2
  sp1 = sp1
  sp2 = sp2
  NoPort = NoPort
  NoCaller = NoCaller
  StreamingPort = {sp1}
  OtherPort = {}
  BindChannel = {2}
  OPDI_MAX_DEVICE_PORTS = 2
  OPDI_STREAMING_PORTS = 2
  Caller = {c1}
  Reader = {c1}
  Refresher = {}
  Binder = {c1}
  Operations <- Two
  Terminator = {1}
  CHANNEL_LOWEST_SYNCHRONOUS = 20
  CHANNEL_ROLLOVER = 22
  PortInfos = 1
  MaxVersion = 1
  MaxData = 0
  UserDisconnects = 0
  MayFail = FALSE
INVARIANT CapabilitiesFollowReconfigure
CHECK_DEADLOCK FALSE
