CONSTANTS
  c1 = c1
  c2 = c2
  None = None
  CpuList <- MC_CpuList
  NoShutdown = TRUE
  NoReboot = FALSE
SPECIFICATION Spec
INVARIANTS TypeOK GuestOnlyWhileRunning
PROPERTIES RunstateTransitionsValid
