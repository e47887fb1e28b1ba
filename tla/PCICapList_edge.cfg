CONSTANTS
  Size = 12
  HeaderSize = 4
  CapPtr = 1
  CapIds <- MC_CapIds
  CapSize <- MC_CapSize
  Offsets <- MC_EdgeOffsets
  GuestAddrs <- MC_GuestAddrs
  GuestVals <- MC_GuestVals
  CapAlign = 2
  HostConfigs <- MC_HostConfigs
  NoHost = NoHost
SPECIFICATION Spec
INVARIANTS CapsInBounds
