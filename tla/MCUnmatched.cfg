CONSTANTS
  ByteSize = 256
  Alphabet = {"[", "]", "+"}
  MaxLength = 3
  Programs <- Texts
SPECIFICATION Spec
INVARIANTS
  RefusesUnbalanced
CHECK_DEADLOCK FALSE
