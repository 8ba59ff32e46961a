SPECIFICATION Spec
CONSTANTS
  c1 = c1
  c2 = c2
  sp1 = sp1
  sp2 = sp2
  NoPort = NoPort
  NoCaller = NoCaller
  StreamingPort = {sp1, sp2}
  OtherPort = {}
  BindChannel = {2, 3}
  OPDI_MAX_DEVICE_PORTS = 2
  OPDI_STREAMING_PORTS = 2
  Caller = {c1, c2}
  Reader = {c1}
  Refresher = {}
  Binder = {c1, c2}
  Operations <- TwoAndOne
  Terminator = {1}
  CHANNEL_LOWEST_SYNCHRONOUS = 20
  CHANNEL_ROLLOVER = 22
  PortInfos = 1
  MaxVersion = 1
  MaxData = 1
  UserDisconnects = 0
  MayFail = FALSE
SYMMETRY PortSymmetry
INVARIANTS
  TypeOK
  AnsweredAsAsked
  NoReplyLeftBehind
  DeliveredToItsPort
  BindingsAgree
CHECK_DEADLOCK FALSE
