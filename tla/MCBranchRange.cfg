CONSTANTS
  ByteSize = 4
  HeapSize = 6
  GuardCells = 1
  MaxOutput = 2
  Fuel = 60
  Alphabet = {}
  MaxLength = 0
  Phrases = 0
  Cases <- LoopCase
  Levels = {0}
  Halfword = 8
  ShortImm = 4
  BranchSize = 16
  HeapBase = 64
  ReadAddr = 2569
  WriteAddr = 3132
  PageSize = 64
  Reserved = 5
  MaxPiece = 63
  Behind = {"foreign"}
  Targets = {"aarch64"}
SPECIFICATION CompiledSpec
INVARIANTS
  DistancesFit
