\* Logins against bans, timeouts and lifts of the CLI and a sysop, with storage errors.
SPECIFICATION Spec
CHECK_DEADLOCK FALSE
CONSTANTS
  NoExpiry = NoExpiry
  NoUser = NoUser
  root = root  vice = vice  joe = joe
  s1 = s1  s2 = s2
  User = {root, joe}
  Session = {s1, s2}
  Web = {}
  Cli = {c1}
  InitLevel <- SysopAndGuest
  InitUser <- RootOnly
  GuestRoom = TRUE
  StorageErrors = TRUE
  Ops = {"reset", "post", "quit", "login", "prompt", "restore", "reply",
         "admin-suspend", "admin-both"}
  MaxDays = 1
  MaxTime = 1
  MaxCommands = 4
  MaxInFlight = 2
INVARIANT LoginNeedsStanding

PROPERTY LiftsOnlyElapsed
