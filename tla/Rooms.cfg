SPECIFICATION Spec
CONSTANTS
  Caller = {"c1", "c2"}
  Name = {"news", "News"}
  Folded <- MCFolded
  MaxRoom = 7
  MaxOps = 4
INVARIANTS
  NeighboursAgree
  StartAccepts
PROPERTIES
  OrderPromise
CHECK_DEADLOCK FALSE
