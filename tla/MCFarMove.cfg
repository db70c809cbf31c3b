CONSTANTS
  ByteSize = 256
  HeapSize = 258
  GuardCells = 0
  MaxOutput = 4
  Fuel = 4
  Alphabet = {}
  MaxLength = 0
  Phrases = 0
  Cases <- FarMove
  Levels = {0, 1, 2, 3}
SPECIFICATION Spec
INVARIANTS
  VerifyHolds
