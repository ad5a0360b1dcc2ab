SPECIFICATION Spec
CONSTANTS
  Size <- MCSize
  Pages <- MCPages
  Length = 2
CHECK_DEADLOCK FALSE
INVARIANTS
  TypeOK
  ScalingIsIdempotent
  CorrectPagesUntouched
  LostContentExplained
