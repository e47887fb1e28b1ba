CONSTANTS
  MemSize = 3
  MaxLen = 2
  MaxNiov = 3
  Hints = {0, 1}
  ExtArrays <- MC_ExtArrays
  SrcVecs <- MC_SrcVecs
  Skips = {0, 1, 2, 3, 4}
  Counts = {0, 1, 2, 3, 5}
  BufSize = 6
  NoVec = NoVec
  Chars = {65, 97}
  MaxStr = 2
  Dates <- MC_Dates
  Buses = {"pci.0", "pci.1", "pci.2"}
  HostBus = "pci.0"
  Children <- MC_Children
  Secondary <- MC_Secondary
  Subordinate <- MC_Subordinate
  NoBus = NoBus
  Tokens <- MC_Tokens
  MaxFields = 4
SPECIFICATION Spec
CHECK_DEADLOCK FALSE
INVARIANT ConcatIovAssertOnlyPastEnd
