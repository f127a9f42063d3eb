SPECIFICATION Spec
CONSTANTS
  alice = alice
  bob = bob
  m1 = m1
  m2 = m2
  m3 = m3
  m4 = m4
  m5 = m5
  Station <- MCStation
  Msg = {m1, m2, m3}
  Call <- MCCall
  To <- MCTo
  Oversize <- MCOversize
  Rank <- MCRank
  MaxBlock = 2
  CallOf <- MCCallOf
  Peer <- MCPeer
  Origin <- MCOrigin
  MaxCalls = 2
  Cases <- MCEveryFault
CHECK_DEADLOCK FALSE
INVARIANTS TypeOK InStep DoneTogether StoredOnce
PROPERTIES Transfers
