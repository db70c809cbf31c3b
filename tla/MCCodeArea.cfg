CONSTANTS
  PageSize = 8
  Reserved = 5
  MaxPiece = 7
  Behind = {"unmapped", "foreign"}
SPECIFICATION Spec
INVARIANTS
  TypeOK
  WrittenIsBacked
  SealedForGood
  ErrMeansFull
CHECK_DEADLOCK FALSE
