CONSTANTS
  MsixMax = 2
  GSIs <- MC_OneGsi
  GuestIrqs <- MC_GuestIrqs
  Faults = {}
  MaxFaults = 0
  Msgs = {1, 2}
SPECIFICATION Spec
INVARIANT RoutesFollowAnyGuest
