SPECIFICATION FairSpec
CONSTANTS
  alice = alice
  bob = bob
  m1 = m1
  m2 = m2
  m3 = m3
  m4 = m4
  m5 = m5
  Station <- MCStation
  Msg = {m1, m2, m3, m4, m5}
  Call <- MCCall
  To <- MCTo
  Oversize <- MCOversize
  Rank <- MCRank
  MaxBlock = 1
  CallOf <- MCCallOf
  Peer <- MCPeer
  Origin <- MCOrigin
  MaxCalls = 3
  Cases <- MCCases
PROPERTIES ExchangeEnds CallDelivers
CHECK_DEADLOCK FALSE
