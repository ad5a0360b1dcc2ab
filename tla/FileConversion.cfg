SPECIFICATION FairSpec
CONSTANTS
  b1 = b1
  b2 = b2
  u1 = u1
  u2 = u2
  f1 = f1
  f2 = f2
  f3 = f3
  f4 = f4
  w1 = w1
  Batches = {b1, b2}
  Callers = {u1, u2}
  CallerOf <- MCCallerOf
  Uploads = {f1, f2, f3, f4}
  Request <- MCRequest
  Kind <- MCKind
  Storage <- MCStorage
  Images <- MCImages
  Pool = {w1}
  PageWidth = 595
  PageHeight = 842
  Margin = 50
INVARIANTS
  TypeOK
  AnswersTheRequest
  OriginalsIntact
  FailureExplained
  OnlyDocmosisFilesSurvive
  ConnectionsExplained
  ImagesFit
CHECK_DEADLOCK FALSE
PROPERTY
  BatchEnds
