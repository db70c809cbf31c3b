CONSTANTS
  Arguments <- FewArguments
  MaxArguments = 3
  DefaultHeap = 8
  MaxFile = 3
  PageSize = 4
  MaxHeap = 31
SPECIFICATION Spec
INVARIANTS
  TypeOK
  LastOneCounts
  ContentIsFile
  DoesWhatIsAsked
  HeapHolds
PROPERTIES
  GetsThere
CHECK_DEADLOCK FALSE
