SPECIFICATION Spec
CONSTANTS
  Byte = 2
  N = 8
  F = 4
  THRESHOLD = 2
  MAX_FREQ = 8
  MAX_UNCOMPRESSED = 9
  CHAIN_DEPTH = 2
  ByteBits = 2
  CodeBits = 2
  LowBits = 1
  Counts <- MCCounts
  Hash <- MCHash
  MaxData = 10
INVARIANTS TypeOK RoundTrip CutIsNoticed WellFormed
