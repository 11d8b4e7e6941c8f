\* The small building blocks: bitmap marks, intrusive list and stack, boot
\* pages, vsnprintf and the functions of libk, libkpp and the utilities.
CONSTANTS
  CellBits = 4
  IntBits = 4
  BITS = 16
  m_itemsPerSlab = 10
  Nodes = {n1, n2, n3}
  nullptr = nullptr
SPECIFICATION SpecLibrary
INVARIANT MarksExact
INVARIANT LoopSeesAll
INVARIANT EveryPageOnce
INVARIANT FormatsAsC
INVARIANT FunctionsAgree
INVARIANT LoadersAgree
PROPERTY ImplementsDeque
\* A call answers once, and a formatted text and a full boot heap are the end.
CHECK_DEADLOCK FALSE
