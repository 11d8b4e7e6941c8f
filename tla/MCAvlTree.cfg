CONSTANTS
  Nodes = {1, 2, 3, 4, 5, 6, 7, 8, 9, 10, 11, 12}
  m_root = 0
  Null = 99
  Data = {21, 22}
  NoData = 0
  Workloads <- MCWorkloads
SPECIFICATION Spec
INVARIANT LinksAgree
INVARIANT Balanced
PROPERTY ImplementsOrderedMap
CHECK_DEADLOCK FALSE
