CONSTANTS
  MsixMax = 2
  GSIs <- MC_OneGsi
  GuestIrqs <- MC_GuestIrqs
  Faults = {"assign_dev", "assign", "msix_nr", "msix_entry", "msix_mmio"}
  MaxFaults = 1
  Msgs = {1, 2}
SPECIFICATION Spec
INVARIANTS TypeOK RoutesTracked KernelIrqTracked MsixVectorsRouted RoutesFollowGuest
