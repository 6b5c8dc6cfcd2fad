CONSTANTS
  MaxSends = 3
  MaxRepeats = 1
  MaxTime = 2
  MaxSessions = 2
  MaxRestarts = 1
  Stages = 2
  Texts = {"login", "next", "yes", "cancel", "quit"}
  DedupWindow = 3
  TextWindow = 1
  RecentCap = 2
  WorkflowTimeout = 2
SPECIFICATION Spec
INVARIANTS OncePerSession FlagsAgree StageExpires SessionsMapped LogoutSticks
PROPERTY PromptTakesReply
CHECK_DEADLOCK FALSE
