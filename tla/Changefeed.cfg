SPECIFICATION FairSpec
CONSTANTS
  Worlds <- AllWorlds
  MaxLines = 2
  MaxStarts = 2
INVARIANTS TypeOK OnePoller InOrder NothingLost HandleOpen
PROPERTIES QuietWhenStopped ImplementsEventFeed EventHanded
CHECK_DEADLOCK FALSE
