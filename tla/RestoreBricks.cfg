SPECIFICATION Spec
CONSTANTS
  Backup = {"a", "b"}
  HasConfig = {"a"}
  BadConfig = {"a"}
  SnapshotsKept = 2
  Overlap = FALSE
  MaxCommits = 1
  MaxInstalls = 1
  MaxFaults = 2
PROPERTY StartsAgain
CHECK_DEADLOCK FALSE
