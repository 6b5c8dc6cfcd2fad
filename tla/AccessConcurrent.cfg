\* Commands of two sessions and of the CLI interleave freely.
SPECIFICATION FairSpec
CHECK_DEADLOCK FALSE
CONSTANTS
  NoExpiry = NoExpiry
  NoUser = NoUser
  root = root  vice = vice  joe = joe
  s1 = s1  s2 = s2
  User = {root, joe}
  Session = {s1, s2}
  Web = {}
  Cli = {c1}
  InitLevel <- SysopAndUser
  InitUser <- RootAndJoe
  GuestRoom = FALSE
  StorageErrors = FALSE
  Ops = {"post", "reply", "profile", "timeout", "validate", "delete", "open", "close",
         "admin-status", "admin-level"}
  MaxDays = 1
  MaxTime = 0
  MaxCommands = 3
  MaxInFlight = 2
INVARIANTS TypeOK AuthorityIsFresh RepliesNeedStanding
PROPERTY BarredIsLoggedOut
