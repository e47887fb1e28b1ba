CONSTANTS
  MsixMax = 2
  GSIs <- MC_GSIs
  GuestIrqs <- MC_GuestIrqs
  Faults = {"commit"}
  MaxFaults = 1
  Msgs = {1, 2}
SPECIFICATION Spec
INVARIANT RoutesTracked
