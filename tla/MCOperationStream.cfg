CONSTANTS
  Op = {o1, o2, o3, o4, o5}
  Null = Null
SPECIFICATION Spec
INVARIANTS
  Linked
  NoDanglingIterator
PROPERTIES
  ImplementsSequence
