SPECIFICATION FairSpec
CONSTANTS
  c1 = c1
  c2 = c2
  sp1 = sp1
  sp2 = sp2
  NoPort = NoPort
  NoCaller = NoCaller
  StreamingPort = {sp1}
  OtherPort = {}
  BindChannel = {2}
  OPDI_MAX_DEVICE_PORTS = 2
  OPDI_STREAMING_PORTS = 2
  Caller = {c1}
  Reader = {c1}
  Refresher = {c1}
  Binder = {c1}
  Operations <- Two
  Terminator = {1, 2}
  CHANNEL_LOWEST_SYNCHRONOUS = 20
  CHANNEL_ROLLOVER = 22
  PortInfos = 0
  MaxVersion = 0
  MaxData = 0
  UserDisconnects = 1
  MayFail = TRUE
INVARIANT SentBeforeStopping
PROPERTIES
  OperationsEnd
  TerminationCompletes
CHECK_DEADLOCK FALSE
