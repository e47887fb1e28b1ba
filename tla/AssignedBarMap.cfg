CONSTANTS
  Regions = {0, 1, 2}
  IoRegions = {3, 4}
  RawIo = {3}
  Ide = FALSE
  Real <- MC_Real
  MsixTable = 10
  P = 2
  GAddrs <- MC_GAddrs
  GTop = 31
  PAddrs <- MC_PAddrs
  PTop = 11
SPECIFICATION Spec
INVARIANT BarsReachDevice
\* After unplug the device is gone and nothing more happens.
CHECK_DEADLOCK FALSE
