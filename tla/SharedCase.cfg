SPECIFICATION SharedSpec
CONSTANTS
  c1 = c1
  d1 = d1
  d2 = d2
  u1 = u1
  u2 = u2
  Correspondences = {c1}
  SentOn <- MCSentOn
  Callers = {u1, u2}
  CallerOf <- MCCallerOf
  LetterType <- MCLetterType
  Methods <- MCMethods
  Parties = {"APPELLANT"}
  Required = {c1}
  Docs = {d1, d2}
  AdderOf <- MCAdderOf
  Operation <- MCOperation
  Statements = {d1}
  ToTranslate = {d2}
  NoCaseId = {}
  NoBenefitType = {}
  SecureEnabled = FALSE
  MaxAttempts = 1
INVARIANTS
  CaseConsistent
  NothingTwice
PROPERTIES
  OnlyStaleWholesErase
  OthersHalfKept
CHECK_DEADLOCK FALSE
