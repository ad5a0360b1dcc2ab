SPECIFICATION Spec
CONSTANTS
  d1 = d1
  d2 = d2
  d3 = d3
  u1 = u1
  u2 = u2
  Docs = {d1, d2, d3}
  Callers = {u1, u2}
  CallerOf <- MCCallerOf
  Operation <- MCOperation
  Statements = {d1, d3}
  ToTranslate = {d2}
  NoCaseId = {}
  NoBenefitType = {d2}
  SecureEnabled = TRUE
  MaxAttempts = 2
INVARIANTS
  TypeOK
  DocumentsExist
  NeverTwice
  HandledMeansSeen
  TranslationFlagged
PROPERTY
  OnlyOvertakenErase
CHECK_DEADLOCK FALSE
