CONSTANTS
  t1 = t1
  t2 = t2
  p0 = p0
  p1 = p1
  p2 = p2
  NoPage = NoPage
  Null = Null
  Nobody = Nobody
  OnePage = OnePage
  ManyPages = ManyPages
  Threads <- MCOneThread
  Pages <- MCPages
  BootPage = p0
  BootItems = {1}
  MAX_BUCKET_INDEX = 2
  MaxItems = 2
  ItemsPerSlab <- MCItems
  MetaBucket = 0
  HashPtr <- MCHash
  EMPTY_MAX = 0
  Sizes <- MCTopSizes
  NullFaults = FALSE
  CountMod = 1
SPECIFICATION Spec
CHECK_DEADLOCK FALSE
INVARIANT NullOnlyWithoutPages
