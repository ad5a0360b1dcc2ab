SPECIFICATION Spec
CONSTANTS
  c1 = c1
  c2 = c2
  c3 = c3
  u1 = u1
  u2 = u2
  Correspondences = {c1, c2, c3}
  Callers = {u1, u2}
  SentOn <- MCSentOn
  CallerOf <- MCCallerOf
  LetterType <- MCLetterType
  Methods <- MCSnapshots
  Parties = {"APPELLANT"}
  Required = {c1, c2, c3}
  SecureEnabled = FALSE
  MaxAttempts = 2
CHECK_DEADLOCK FALSE
INVARIANTS
  AtMostOncePerUpdate
