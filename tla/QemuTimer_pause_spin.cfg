CONSTANTS
  Pm = Pm
  Gui = Gui
  Dev = Dev
  MaxNow = 6
  NsPerUs = 1
  UsPerMs = 2
  MinRearmUs = 1
  BigDelta = 100
  TicksPerSec = 3
  PmFreq = 2
  OvfHalf = 2
  GuiInterval = 2
  DevPeriods = {2}
SPECIFICATION FairSpec
PROPERTIES PausedAlarmIdle
CHECK_DEADLOCK FALSE
