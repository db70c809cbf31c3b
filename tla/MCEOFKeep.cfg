CONSTANTS
  ByteSize = 256
  HeapSize = 2
  GuardCells = 0
  MaxOutput = 4
  Fuel = 10
  Alphabet = {}
  MaxLength = 0
  Phrases = 0
  Cases <- CatCase
  Levels = {0, 1, 2, 3}
SPECIFICATION Spec
PROPERTIES
  KeepsCellAtEOF
