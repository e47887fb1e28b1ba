CONSTANTS
  MsixMax = 2
  GSIs <- MC_GSIs
  GuestIrqs <- MC_OneGuestIrq
  Faults = {}
  MaxFaults = 0
  Msgs = {1}
SPECIFICATION Spec
INVARIANT DeliveryMatchesGuest
