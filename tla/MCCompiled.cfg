CONSTANTS
  ByteSize = 4
  HeapSize = 6
  GuardCells = 1
  MaxOutput = 2
  Fuel = 60
  Alphabet = {"+", "-", ">", "<", ".", ",", "[", "]"}
  MaxLength = 2
  Phrases = 3
  Cases <- CodeCases
  Levels = {0, 3}
  Halfword = 8
  ShortImm = 4
  BranchSize = 524288
  HeapBase = 64
  ReadAddr = 2569
  WriteAddr = 3132
  PageSize = 64
  Reserved = 5
  MaxPiece = 63
  Behind = {"foreign"}
  Targets = {"x86-64", "aarch64"}
SPECIFICATION CompiledSpec
INVARIANTS
  MeansTheSame
  JumpsLand
  ReturnsAsCalled
PROPERTIES
  HaltsOrFails
  CodeImplementsSource
