CONSTANTS
  UserLines <- MCLines
  MapEntries = 3
  Readable = 640
  PageSize = 4096
  PauseCount = 35
  Height = 25
  TypeAhead = 1
  Devices <- MCDevices
  Values = {1}
  MaxNest = 2
SPECIFICATION MachineSpec
INVARIANT NothingScrollsUnread
PROPERTY CommandEnds
PROPERTY InterruptsTransparent
PROPERTY TimerServed
CHECK_DEADLOCK FALSE
