CONSTANTS
  ByteSize = 256
  Alphabet = {"[", "]", "+", "x"}
  MaxLength = 7
  Programs <- Texts
SPECIFICATION Spec
INVARIANTS
  TypeOK
  AcceptsBalanced
  JumpsFollowBrackets
  ParsedWellJoined
PROPERTIES
  Terminates
CHECK_DEADLOCK FALSE
