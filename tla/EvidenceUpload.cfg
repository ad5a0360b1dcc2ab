SPECIFICATION FairSpec
CONSTANTS
  f1 = f1
  f2 = f2
  f3 = f3
  b1 = b1
  Files = {f1, f2, f3}
  TooBig = {f3}
  Before = {b1}
  ParallelUploads = 1
  MaxClicks = 2
CHECK_DEADLOCK FALSE
INVARIANTS
  TypeOK
  QueueWithinLimit
  BarExplained
  MessageExplained
  StoredIsListed
PROPERTIES
  OldestFirst
  EveryFileSettles
