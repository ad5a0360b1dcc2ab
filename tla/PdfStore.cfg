SPECIFICATION Spec
CONSTANTS
  d1 = d1
  d2 = d2
  i1 = i1
  i2 = i2
  Documents = {d1, d2}
  Instances = {i1, i2}
  MaxChanges = 2
SYMMETRY MCSymmetry
INVARIANTS
  TypeOK
  FailedDownloadsExplained
CHECK_DEADLOCK FALSE
