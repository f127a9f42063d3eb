SPECIFICATION FairSpec
CONSTANTS
  DrainPoll = 1
  DrainLimit = 4
  DisconnectLimit = 2
  IdleTimeout = 3
  OldAge = 5
  MaxUnacked = 2
  MaxFrames = 2
INVARIANTS TypeOK EndsOnce
PROPERTIES AckedBeforeHangup LinkReleased TimersEnd
CHECK_DEADLOCK FALSE
