SPECIFICATION Spec
CONSTANTS
  c1 = c1
  c2 = c2
  c3 = c3
  u1 = u1
  u2 = u2
  Correspondences = {c1, c2}
  Callers = {u1, u2}
  SentOn <- MC2SentOn
  CallerOf <- MC2CallerOf
  LetterType <- MC2LetterType
  Methods <- MCAnyMethod
  Parties = {"APPELLANT"}
  Required = {c1, c2}
  SecureEnabled = TRUE
  MaxAttempts = 2
INVARIANTS
  TypeOK
  RecordedDocumentsExist
  OutstandingFlagAgrees
  ListsNewestFirst
  ResultIsHonest
CHECK_DEADLOCK FALSE
PROPERTY
  OnlyStaleSnapshotsErase
