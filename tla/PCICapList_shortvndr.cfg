CONSTANTS
  Size = 12
  HeaderSize = 4
  CapPtr = 1
  CapIds <- MC_CapIds
  CapSize <- MC_CapSize
  Offsets <- MC_Offsets
  GuestAddrs <- MC_GuestAddrs
  GuestVals <- MC_GuestVals
  CapAlign = 2
  HostConfigs <- MC_ShortVendorHost
  NoHost = NoHost
SPECIFICATION Spec
INVARIANT GuestSeesCapList
