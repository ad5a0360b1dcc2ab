SPECIFICATION Spec
CONSTANTS
  d1 = d1
  d2 = d2
  d3 = d3
  u1 = u1
  u2 = u2
  Docs = {d1, d2, d3}
  Callers = {u1, u2}
  CallerOf <- MCCallerOf
  Operation <- MCOperation
  Statements = {d1}
  ToTranslate = {d2}
  NoCaseId = {d2}
  NoBenefitType = {}
  SecureEnabled = TRUE
  MaxAttempts = 2
INVARIANT
  NoCaseIdSkipsCcd
CHECK_DEADLOCK FALSE
