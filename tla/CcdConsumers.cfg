SPECIFICATION FairSpec
CONSTANTS
  c1 = c1
  c2 = c2
  c3 = c3
  u1 = u1
  u2 = u2
  Correspondences = {c1, c2}
  Callers = {u1, u2}
  SentOn <- MC2SentOn
  CallerOf <- MC2CallerOf
  LetterType <- MC2Addressees
  Methods <- MCConsumers
  Parties = {"APPELLANT", "APPOINTEE"}
  Required = {c1, c2}
  SecureEnabled = TRUE
  MaxAttempts = 2
CHECK_DEADLOCK FALSE
PROPERTIES
  ImplementsLog
  EveryCallEnds
