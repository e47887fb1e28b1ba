CONSTANTS
  Devices <- Bridged_Devices
  Buses <- MC_Buses
  RootBus <- MC_RootBus
  BusOf <- Bridged_BusOf
  SlotOf <- Bridged_SlotOf
  ParentDev <- MC_ParentDev
  MapIrq <- MC_MapIrq
  Pins <- MC_Pins
  Lines <- MC_Lines
  CountBound = 3
SPECIFICATION Spec
INVARIANT LineIsOr
