CONSTANTS
  t1 = t1
  t2 = t2
  p0 = p0
  p1 = p1
  p2 = p2
  NoPage = NoPage
  Null = Null
  Nobody = Nobody
  OnePage = OnePage
  ManyPages = ManyPages
  Threads <- MCThreads
  Pages <- MCTwoPages
  BootPage = p0
  BootItems = {1}
  MAX_BUCKET_INDEX = 2
  MaxItems = 3
  ItemsPerSlab <- MCMoreItems
  MetaBucket = 0
  HashPtr <- MCHash
  EMPTY_MAX = 0
  Sizes <- MCSizes
  NullFaults = FALSE
  CountMod = 1
SPECIFICATION FairSpec
CHECK_DEADLOCK FALSE
INVARIANT ListsMatchCounts
PROPERTY BucketStableWhileHeld
PROPERTY LocksReleased
