CONSTANTS
  PageSize = 2
  Word = 32
  MaxMemoryEntries = 4
  IdentityMark = 20
  KernelStart = 6
  KernelEnds = {9, 10}
  BootTables = 2
  FirmwareMaps <- MCFirmwareMaps
  AddedRanges <- MCAddedRanges
  EndsShared = FALSE
SPECIFICATION Spec
CHECK_DEADLOCK FALSE
INVARIANT MapExact
INVARIANT HeapUsable
INVARIANT BootPagesUsable
INVARIANT BootPagesComplete
