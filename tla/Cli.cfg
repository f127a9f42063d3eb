SPECIFICATION FairSpec
CONSTANTS
  MaxConns = 2
  MaxListeners = 1
  MaxLines = 3
  MaxQueue = 2
  Commands = {"connect", "listen", "stop", "abort", "quit", "compose", "text"}
  LinksBreak = TRUE
INVARIANTS TypeOK KeepsItsLink OnceStatusIsTrue
PROPERTIES ProgramEnds
CHECK_DEADLOCK FALSE
