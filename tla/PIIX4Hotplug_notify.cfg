CONSTANTS
  Devices <- MC_Devices
  Buses = {"pci.0"}
  RootBus = "pci.0"
  BusOf <- MC_BusOf
  SlotOf <- MC_SlotOf
  ParentDev <- MC_ParentDev
  MapIrq <- MC_MapIrq
  Pins = {0}
  Lines = {0, 2}
  CountBound = 2
  Fixed = {"piix"}
  ColdPlugged = {"piix", "blk"}
SPECIFICATION FairSpec
PROPERTY UnplugCompletes
