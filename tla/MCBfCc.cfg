CONSTANTS
  ByteSize = 4
  HeapSize = 3
  GuardCells = 0
  MaxOutput = 3
  Fuel = 60
  Alphabet = {"+", "-", ">", "<", ".", ",", "[", "]"}
  MaxLength = 3
  Phrases = 3
  Cases <- EveryCase
  Levels = {0, 1, 2, 3}
SPECIFICATION Spec
INVARIANTS
  TypeOK
  JumpsJoined
  IteratorsLive
  VerifyHolds
  MeansTheSame
PROPERTIES
  OptimizerFinishes
  HaltsIfTextHalts
  ImplementsSource
