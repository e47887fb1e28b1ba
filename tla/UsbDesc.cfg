CONSTANTS
  NoDev = NoDev
  NoStr = NoStr
  None = None
  Desc <- MC_Desc
  MsosEnable = TRUE
  UniqueSerial = TRUE
  SerialStr <- MC_SerialStr
  PortMasks <- MC_PortMasks
  Addrs = {0, 5}
  Lens = {2, 9, 300}
  Indices <- MC_Indices
  ConfValues = {1, 2, 3}
  Features = {0, 1}
SPECIFICATION Spec
INVARIANT ControlRepliesDescribeDevice
