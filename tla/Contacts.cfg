\* Two chat nodes and a repeater, a radio table of two and room for one favourite.
SPECIFICATION Spec
CHECK_DEADLOCK FALSE
CONSTANTS
  Node = {ann, bob, hill}
  Chat = {ann, bob}
  Cap = 1
  CmdDepth = 2
  TableSize = 2
  NoNode = NoNode
  MaxTime = 1
  MaxInputs = 3
SYMMETRY Interchangeable
INVARIANTS ProtectedIsFavourite FavouriteIsKnown MarkedHadDecision
PROPERTY RevertsOwn
