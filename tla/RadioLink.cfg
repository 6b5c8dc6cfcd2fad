SPECIFICATION FairSpec
CONSTANTS
  Command = {c1}
  Chatter = {g1}
  Push = {p1}
  CmdDepth = 5
  EventDepth = 1
  WorkDepth = 1
  MaxAttempts = 2
  MaxOutages = 1
INVARIANTS VerdictsMatch CopiesBounded
PROPERTIES RepliesSettle QueueDrains
CHECK_DEADLOCK FALSE
