SPECIFICATION Spec
CONSTANTS
  MaxConns = 1
  MaxListeners = 2
  MaxLines = 3
  MaxQueue = 3
  Commands = {"listen", "stop"}
  LinksBreak = FALSE
INVARIANTS StopReachesListener
CHECK_DEADLOCK FALSE
