SPECIFICATION LinksSpec
CONSTANTS
  MaxLine = 3
  Calls <- MCCalls
  Passwords <- MCPasswords
  Banners <- MCBanners
  CallerEnds <- MCEnds
  PromptEnds <- MCPrompts
  Preludes <- MCPreludes
  LfComesAlong = TRUE
  Base = 8
  CR = 5
  LF = 6
  SOH = 1
  STX = 2
  EOT = 4
  Star = 7
  Zero = 3
  MaxChunk = 2
  HeaderLen = 3
  MaxData = 5
  Go <- MCGo
  Streams <- MCStreams
  PacLens = {3}
INVARIANTS LinksTypeOK LoginHandsOver HearsWhatWasSent
PROPERTIES TelnetEnds
CHECK_DEADLOCK FALSE
