\* One command at a time: what the handlers' own checks guarantee.
SPECIFICATION Spec
CHECK_DEADLOCK FALSE
CONSTANTS
  NoExpiry = NoExpiry
  NoUser = NoUser
  root = root  vice = vice  joe = joe
  s1 = s1  s2 = s2
  User = {root, vice, joe}
  Session = {s1, s2}
  Web = {w1}
  Cli = {}
  InitLevel <- TwoSysopsAndUser
  InitUser <- RootOnly
  GuestRoom = FALSE
  StorageErrors = FALSE
  Ops = {"login", "ban", "unban", "timeout", "level", "admin-level"}
  MaxDays = 1
  MaxTime = 1
  MaxCommands = 4
  MaxInFlight = 1
INVARIANTS BanStands TimeoutIsTemporary SysopRemains
           BarredHoldsNoSession
