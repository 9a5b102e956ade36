SPECIFICATION FairSpec
CONSTANTS
  Worlds <- FilesOnly
  MaxLines = 3
  MaxStarts = 1
PROPERTIES TornLineHanded
CHECK_DEADLOCK FALSE
