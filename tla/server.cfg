SPECIFICATION FairSpec
CONSTANTS
  Settings <- MCSettings
  Processes = 2
  Tasks = 2
  NoFile = NoFile
  Torn = Torn
  MaxClock = 1
INVARIANTS FilesKept NoPanic
PROPERTIES RestartServes
CHECK_DEADLOCK FALSE
