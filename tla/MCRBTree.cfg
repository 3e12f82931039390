SPECIFICATION FairSpec
CONSTANTS
  MaxKey = 7
  Keys <- MCKeys
  Head = Head
  Nil = Nil
INVARIANT
  RedBlack
PROPERTIES
  IsSortedSet
  OperationsEnd
