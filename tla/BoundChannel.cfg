SPECIFICATION PortSpec
CONSTANTS
  sp1 = sp1
  sp2 = sp2
  sp3 = sp3
  digPort = digPort
  StreamingPort <- MCStreamingPort
  OtherPort <- MCOtherPort
  BindChannel <- MCBindChannel
  OPDI_MAX_DEVICE_PORTS = 3
  OPDI_STREAMING_PORTS = 3
INVARIANT BoundHasChannel
