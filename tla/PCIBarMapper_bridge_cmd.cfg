CONSTANTS
  Devices <- MC_Devices
  Bridges <- MC_Bridges
  RootBus = "pci.0"
  BusOf <- MC_BusOf
  ParentDev <- MC_ParentDev
  Regions <- MC_Regions
  RegDev <- MC_RegDev
  RegIdx <- MC_RegIdx
  RegType <- MC_RegType
  RegSize <- MC_RegSize
  IdeDevices = {"ide"}
  UpdateOrder <- MC_UpdateOrder
  Top = 31
  IoTop = 15
  MemGran = 8
  BarValues = {0, 9, 16, 31}
  CmdValues <- MC_CmdValues
  WindowValues = {0, 1, 2}
SPECIFICATION Spec
INVARIANT BridgeDisabledUnmapped
