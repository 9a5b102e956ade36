SPECIFICATION FairSpec
CONSTANTS
  MaxCommands = 4
  MaxPids = 6
  MaxDeaths = 2
  Ops = {"start", "foreground", "stop", "migrate"}
  Scenes = {"settled", "prompt"}
INVARIANTS TypeOK NoOrphan OneStack
PROPERTIES StackEnds
CHECK_DEADLOCK FALSE
