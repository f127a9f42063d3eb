SPECIFICATION FairSpec
CONSTANTS
  MaxConns = 1
  MaxListeners = 0
  MaxLines = 0
  MaxQueue = 2
  Commands = {}
  LinksBreak = TRUE
PROPERTIES OnceExits
CHECK_DEADLOCK FALSE
