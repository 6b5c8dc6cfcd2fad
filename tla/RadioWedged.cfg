SPECIFICATION FairSpec
CONSTANTS
  Command = {c1}
  Chatter = {}
  Push = {p1, p2}
  CmdDepth = 1
  EventDepth = 2
  WorkDepth = 1
  MaxAttempts = 2
  MaxOutages = 1
PROPERTIES Reconnects
CHECK_DEADLOCK FALSE
