SPECIFICATION Spec
CONSTANTS
  User = {"ann", "moe", "gus"}
  LevelOf <- MCLevelOf
  GuestRoom = 1
  ExtraRooms <- MCExtraRooms
  MESH_PAGE = 1
  MAX_BLOCKED_SKIP = 2
  Mix <- MCMix
  MaxMessage = 3
INVARIANTS
  PointersBelong
  PassedIsAccounted
  NShowsOnce
  PositionIsHere
CHECK_DEADLOCK FALSE
