\* Requests, start-up and exit loops overlap; a name is in both files.
SPECIFICATION FairSpec
CHECK_DEADLOCK FALSE
CONSTANTS
  None = None
  Boot = Boot
  radio = radio
  Plugin = {radio}
  Handle = {h1, h2, h3}
  Admin = {a1, a2}
  TomlAtStart <- Enabled
  DropInAtStart <- Disabled
  RestartOnCrash = TRUE
  SpawnFails = TRUE
  MaxCommands = 3
INVARIANTS NoOrphan FilesMatchRegistry
PROPERTY ExitIsAnswered
