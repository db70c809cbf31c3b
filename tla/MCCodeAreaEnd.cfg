CONSTANTS
  PageSize = 8
  Reserved = 5
  MaxPiece = 7
  Behind = {"unmapped", "foreign"}
SPECIFICATION Spec
INVARIANTS
  Contained
CHECK_DEADLOCK FALSE
