CONSTANTS
  Entries = 8
  MaskRange = 16
  FrameCount = 10
  KernelBase = 48
  KernelStart = 1
  KernelLast = 3
  HeapStart = 3
  CallerFrames = {6, 7}
  CallerPages <- MCPages
  CallerFlags <- MCFlags
  MapLengths = {1, 2}
  LookedUp <- MCIdentity
  Junk <- MCJunk
SPECIFICATION Spec
INVARIANT TablesApart
PROPERTY KernelReachable
PROPERTY ImplementsAddressSpace
CHECK_DEADLOCK FALSE
